---------------------------- MODULE Spec2Model ----------------------------
(***************************************************************************)
(* Periodic real-time task evaluation: the EDF discrete-event simulator    *)
(* (ordonnanceur_edf) and the fixed-priority response-time analysis        *)
(* (ordonnanceur_statique).                                                *)
(*                                                                         *)
(* Time.  The programs compute on floats with the tolerance EPSILON = 1e-9.*)
(* Here every time value is an integer number of ticks, one tick being     *)
(* EPSILON, and one time unit (the float 1.0) being TicksPerUnit ticks.    *)
(* Task parameters and horizons are whole numbers of time units, so two    *)
(* distinct time values always differ by more than EPSILON and a ratio of  *)
(* two of them that is not an integer is further than EPSILON from one     *)
(* (TicksPerUnit exceeds every period counted in units).  Every comparison *)
(* of the source keeps its EPSILON term.                                   *)
(***************************************************************************)
EXTENDS Integers, Sequences, FiniteSets, TLC

\* ------------------------------------------------------------------ bounds
TicksPerUnit == 8    \* ticks per time unit; EPSILON is one tick
MaxC == 2            \* computation_time, in units
MaxT == 3            \* period and relative deadline, in units
MaxHorizon == 5      \* simulation horizon, in units
MaxStaticT == 4      \* period of a StaticTask, in units
MaxOverloadHorizon == 23   \* horizon of the overload scenario, in units
MaxEntries == 3      \* entries in a list given to merge_timeline

\* --------------------------------------------------------------- constants
EPSILON == 1         \* task.py: EPSILON = 1e-9, the tick
None == -1           \* Python's None in a field that otherwise holds a time >= 0
Infinity == 1000000  \* float("inf"): above every time the model reaches

U(k) == k * TicksPerUnit

(***************************************************************************)
(* State.  Each program modelled has its own variables and its own         *)
(* specifications; a specification leaves the other programs' variables at *)
(* rest.                                                                   *)
(***************************************************************************)
\* simulate_edf: its arguments, position and locals.
VARIABLES tasks, horizon, pc, jobs, future_jobs, ready_jobs,
          release_counter, ready_counter, now, timeline,
          missed_deadlines, unfinished_jobs, job, popped, result

\* Task.generate_jobs called on its own: receiver, arguments, position, result.
VARIABLES gen_task, gen_horizon, gen_include, gen_pc, gen_jobs

\* ordonnanceur_statique.analysis.check_feasibility: arguments, position, locals.
VARIABLES stasks, policy, preemptive, rpc, ordered, idx, blocking, response,
          iterations, results, feasible, report, error, trace, traces

\* Task(...) and StaticTask(...): the class, the arguments, the position, the
\* object built and the exception raised.
VARIABLES ctor_cls, ctor_args, ctor_pc, ctor_obj, ctor_error

\* compute_default_horizon: the periods of its tasks, the position, the result.
VARIABLES periods, hz_pc, hz_result

\* Calls made on the tasks of a call of analysis.check_feasibility: `first` is
\* what an earlier call of analysis.check_feasibility with other arguments left;
\* hpf_pc, hpf_result and hpf_error are the position, the value returned and the
\* exception raised by hpf.check_feasibility; hpf_ordered, hpf_index,
\* hpf_response and hpf_passes are its locals.
VARIABLES first, hpf_pc, hpf_result, hpf_error,
          hpf_ordered, hpf_index, hpf_response, hpf_passes

\* merge_timeline called on a list of entries, then on the list it returned:
\* the entries, the position, the two lists returned.
VARIABLES mt_entries, mt_pc, mt_merged, mt_again

edfVars == <<tasks, horizon, pc, jobs, future_jobs, ready_jobs,
             release_counter, ready_counter, now, timeline,
             missed_deadlines, unfinished_jobs, job, popped, result>>

genVars == <<gen_task, gen_horizon, gen_include, gen_pc, gen_jobs>>

rtaVars == <<stasks, policy, preemptive, rpc, ordered, idx, blocking, response,
             iterations, results, feasible, report, error, trace, traces>>

ctorVars == <<ctor_cls, ctor_args, ctor_pc, ctor_obj, ctor_error>>

hzVars == <<periods, hz_pc, hz_result>>

cmpVars == <<first, hpf_pc, hpf_result, hpf_error,
             hpf_ordered, hpf_index, hpf_response, hpf_passes>>

mergeVars == <<mt_entries, mt_pc, mt_merged, mt_again>>

\* The variables of the programs that are one call each, and of the calls
\* made beside a call of analysis.check_feasibility.
callVars == <<ctorVars, hzVars, cmpVars, mergeVars>>

vars == <<edfVars, genVars, rtaVars, callVars>>


Min2(a, b) == IF a <= b THEN a ELSE b
Max2(a, b) == IF a >= b THEN a ELSE b

(***************************************************************************)
(* Task (ordonnanceur_edf/task.py).  A task is the record of its fields;   *)
(* names are unique within a task set.                                     *)
(***************************************************************************)
TaskNames == <<"A", "B">>

\* The offsets tried, in units: a synchronous release and a delayed one.
OffsetUnits == {0, 1}

TaskParams ==
    [computation_time : {U(k) : k \in 1..MaxC},
     period           : {U(k) : k \in 1..MaxT},
     deadline         : {U(k) : k \in 1..MaxT},
     offset           : {U(k) : k \in OffsetUnits}]

Task(name, p) ==
    [name |-> name, computation_time |-> p.computation_time,
     period |-> p.period, deadline |-> p.deadline, offset |-> p.offset]

TaskSets ==
    UNION {{[i \in 1..n |-> Task(TaskNames[i], f[i])] : f \in [1..n -> TaskParams]}
           : n \in 0..Len(TaskNames)}

\* Mutant: the absolute deadline taken from the period.
JobDeadlineFromPeriod(task, release, instance) ==
    [task |-> task, release_time |-> release, instance |-> instance,
     absolute_deadline |-> release + task.period,
     remaining_time |-> task.computation_time,
     started_at |-> None, completed_at |-> None]

\* Job(task=..., release_time=..., instance=..., absolute_deadline=...,
\*     remaining_time=...), started_at and completed_at defaulting to None.
\* The task field is the task record itself (the dataclass compares by value).
Job(task, release, instance) ==
    [task |-> task, release_time |-> release, instance |-> instance,
     absolute_deadline |-> release + task.deadline,
     remaining_time |-> task.computation_time,
     started_at |-> None, completed_at |-> None]

\* Task.generate_jobs: the loop "while True" from a given instance on.
RECURSIVE GenerateFrom(_, _, _)
GenerateFrom(task, limit, instance) ==
    LET release == task.offset + (instance - 1) * task.period IN
    IF release > limit + EPSILON
    THEN <<>>
    ELSE <<Job(task, release, instance)>> \o GenerateFrom(task, limit, instance + 1)

\* limit = horizon, plus EPSILON when include_job_at_horizon.
GenerateLimit(h, include_job_at_horizon) ==
    IF include_job_at_horizon THEN h + EPSILON ELSE h

generate_jobs(task, h, include_job_at_horizon) ==
    GenerateFrom(task, GenerateLimit(h, include_job_at_horizon), 1)

\* Mutant: a job is late only when it starts after its deadline.
deadline_missed_when_started_late(jobrec) ==
    IF jobrec.started_at = None THEN FALSE
    ELSE jobrec.started_at - jobrec.absolute_deadline > EPSILON

\* Mutant: a completion exactly at the deadline counted as a miss.
deadline_missed_at_deadline(jobrec) ==
    IF jobrec.completed_at = None
    THEN FALSE
    ELSE jobrec.completed_at - jobrec.absolute_deadline > -EPSILON

\* Job.deadline_missed
deadline_missed(jobrec) ==
    IF jobrec.completed_at = None
    THEN FALSE
    ELSE jobrec.completed_at - jobrec.absolute_deadline > EPSILON

(***************************************************************************)
(* heapq on a list of tuples of numbers.  Position p here is Python's      *)
(* index p - 1: the parent of p is p \div 2, its children 2p and 2p + 1.   *)
(***************************************************************************)
\* Python's tuple comparison a < b.
RECURSIVE TupleLess(_, _)
TupleLess(a, b) ==
    IF a = <<>> \/ b = <<>> THEN a = <<>> /\ b # <<>>
    ELSE IF Head(a) # Head(b) THEN Head(a) < Head(b)
    ELSE TupleLess(Tail(a), Tail(b))

RECURSIVE SiftDown(_, _, _, _)
SiftDown(heap, newitem, startpos, pos) ==
    IF pos > startpos /\ TupleLess(newitem, heap[pos \div 2])
    THEN SiftDown([heap EXCEPT ![pos] = heap[pos \div 2]], newitem, startpos, pos \div 2)
    ELSE [heap EXCEPT ![pos] = newitem]

RECURSIVE SiftUp(_, _, _, _)
SiftUp(heap, newitem, startpos, pos) ==
    LET endpos == Len(heap)
        childpos == 2 * pos
        rightpos == childpos + 1
        c == IF rightpos <= endpos /\ ~TupleLess(heap[childpos], heap[rightpos])
             THEN rightpos ELSE childpos
    IN IF childpos <= endpos
       THEN SiftUp([heap EXCEPT ![pos] = heap[c]], newitem, startpos, c)
       ELSE SiftDown(heap, newitem, startpos, pos)

heappush(heap, item) == SiftDown(Append(heap, item), item, 1, Len(heap) + 1)

\* heappop: the item returned and the heap left.
HeapTop(heap) == heap[1]
HeapRest(heap) ==
    LET lastelt == heap[Len(heap)]
        rest == SubSeq(heap, 1, Len(heap) - 1)
    IN IF rest = <<>> THEN <<>> ELSE SiftUp(rest, lastelt, 1, 1)


(***************************************************************************)
(* simulate_edf (ordonnanceur_edf/main.py).                                *)
(*                                                                         *)
(* Job objects live in `jobs`, in the order they were generated; the       *)
(* queues and the result lists hold indices into it (Python references).   *)
(* pc is the position in the function:                                     *)
(*   "start"  before the horizon check and the job generation,             *)
(*   "loop"   at the test of the main while loop,                          *)
(*   "run"    a job was popped from ready_jobs and is about to execute,    *)
(*   "after"  the loop was left (test false, or break),                    *)
(*   "done"   the result was returned,  "error"  ValueError was raised.    *)
(* job is the local `job` of the loop body; popped keeps the whole tuple   *)
(* heappop(ready_jobs) returned for it (the code discards its key).        *)
(***************************************************************************)

Horizons == {U(k) : k \in (-1)..MaxHorizon}

NoResult == [timeline |-> <<>>, missed_deadlines |-> <<>>,
             unfinished_jobs |-> <<>>, simulation_end |-> None]

\* The locals of simulate_edf before the function is entered.
EdfBlank ==
    /\ jobs = <<>>
    /\ future_jobs = <<>>
    /\ ready_jobs = <<>>
    /\ release_counter = 0
    /\ ready_counter = 0
    /\ now = 0
    /\ timeline = <<>>
    /\ missed_deadlines = <<>>
    /\ unfinished_jobs = <<>>
    /\ job = 0
    /\ popped = <<>>
    /\ result = NoResult

EdfInit ==
    /\ tasks \in TaskSets
    /\ horizon \in Horizons
    /\ pc = "start"
    /\ EdfBlank

\* for task in tasks: for job in task.generate_jobs(horizon,
\* include_job_at_horizon=False): the jobs in generation order.
RECURSIVE AllJobs(_, _)
AllJobs(ts, h) ==
    IF ts = <<>> THEN <<>>
    ELSE generate_jobs(Head(ts), h, FALSE) \o AllJobs(Tail(ts), h)

\* The entry pushed on future_jobs for job number j.
FutureEntry(jobrec, seq, j) == <<jobrec.release_time, seq, j>>

\* Mutant: the latest deadline first.
ReadyEntryLatestDeadlineFirst(jobrec, seq, j) ==
    <<-jobrec.absolute_deadline, jobrec.release_time, seq, j>>

\* Mutant: the key fields swapped, release before deadline (FIFO, not EDF).
ReadyEntryReleaseFirst(jobrec, seq, j) ==
    <<jobrec.release_time, jobrec.absolute_deadline, seq, j>>

\* The entry pushed on ready_jobs for job number j.
ReadyEntry(jobrec, seq, j) ==
    <<jobrec.absolute_deadline, jobrec.release_time, seq, j>>

\* heappush of jobs i..Len(js) on future_jobs, release_counter counting from 0.
RECURSIVE PushFuture(_, _, _)
PushFuture(heap, js, i) ==
    IF i > Len(js) THEN heap
    ELSE PushFuture(heappush(heap, FutureEntry(js[i], i - 1, i)), js, i + 1)

Start ==
    /\ pc = "start"
    /\ IF horizon < 0
       THEN /\ pc' = "error"
            /\ UNCHANGED <<jobs, future_jobs, release_counter>>
       ELSE LET js == AllJobs(tasks, horizon) IN
            /\ jobs' = js
            /\ future_jobs' = PushFuture(<<>>, js, 1)
            /\ release_counter' = Len(js)
            /\ pc' = "loop"
    /\ UNCHANGED <<tasks, horizon, ready_jobs, ready_counter, now, timeline,
                   missed_deadlines, unfinished_jobs, job, popped, result>>
    /\ UNCHANGED <<genVars, rtaVars, callVars>>

\* Mutant: the loop runs whatever the horizon.
LoopTestWithoutHorizon == future_jobs # <<>> \/ ready_jobs # <<>>

\* while (future_jobs or ready_jobs) and now < horizon
LoopTest == (future_jobs # <<>> \/ ready_jobs # <<>>) /\ now < horizon

\* Mutant: a job released at `now` is not released yet.
ReleaseDueStrict(release, t) == release < t

\* future_jobs[0][0] <= now
ReleaseDue(release, t) == release <= t

\* while future_jobs and future_jobs[0][0] <= now: pop it, push it on ready_jobs.
RECURSIVE Drain(_, _, _, _)
Drain(future, ready, counter, t) ==
    IF future # <<>> /\ ReleaseDue(HeapTop(future)[1], t)
    THEN LET j == HeapTop(future)[3] IN
         Drain(HeapRest(future),
               heappush(ready, ReadyEntry(jobs[j], counter, j)),
               counter + 1, t)
    ELSE [future |-> future, ready |-> ready, counter |-> counter]

Drained == Drain(future_jobs, ready_jobs, ready_counter, now)

LoopExit ==
    /\ pc = "loop"
    /\ ~LoopTest
    /\ pc' = "after"
    /\ UNCHANGED <<tasks, horizon, jobs, future_jobs, ready_jobs,
                   release_counter, ready_counter, now, timeline,
                   missed_deadlines, unfinished_jobs, job, popped, result>>
    /\ UNCHANGED <<genVars, rtaVars, callVars>>

\* The job heappop(ready_jobs) returns: the fourth field of the root.
PoppedJob(ready) == HeapTop(ready)[4]

\* if ready_jobs: pop a job; continue if it has nothing left to run, else
\* set started_at at the first dispatch.
Dispatch ==
    /\ pc = "loop"
    /\ LoopTest
    /\ Drained.ready # <<>>
    /\ LET j == PoppedJob(Drained.ready) IN
       /\ job' = j
       /\ popped' = HeapTop(Drained.ready)
       /\ future_jobs' = Drained.future
       /\ ready_jobs' = HeapRest(Drained.ready)
       /\ ready_counter' = Drained.counter
       /\ IF jobs[j].remaining_time <= EPSILON
          THEN /\ pc' = "loop"
               /\ jobs' = jobs
          ELSE /\ pc' = "run"
               /\ jobs' = IF jobs[j].started_at = None
                          THEN [jobs EXCEPT ![j].started_at = now]
                          ELSE jobs
    /\ UNCHANGED <<tasks, horizon, release_counter, now, timeline,
                   missed_deadlines, unfinished_jobs, result>>
    /\ UNCHANGED <<genVars, rtaVars, callVars>>

\* Mutant: every idle entry runs to the horizon, as in the "no future job" branch.
IdleEntryToHorizon(start, end) ==
    [task |-> "IDLE", job |-> None, start |-> start, end |-> horizon,
     deadline |-> None, completed |-> TRUE]

IdleEntry(start, end) ==
    [task |-> "IDLE", job |-> None, start |-> start, end |-> end,
     deadline |-> None, completed |-> TRUE]

\* else-branch of "if ready_jobs": nothing is ready.
Idle ==
    /\ pc = "loop"
    /\ LoopTest
    /\ Drained.ready = <<>>
    /\ future_jobs' = Drained.future
    /\ ready_jobs' = Drained.ready
    /\ ready_counter' = Drained.counter
    /\ IF Drained.future = <<>>
       THEN /\ IF now < horizon
               THEN /\ timeline' = Append(timeline, IdleEntry(now, horizon))
                    /\ now' = horizon
               ELSE UNCHANGED <<timeline, now>>
            /\ pc' = "after"
       ELSE LET next_time == Min2(HeapTop(Drained.future)[1], horizon) IN
            /\ timeline' = IF next_time > now + EPSILON
                           THEN Append(timeline, IdleEntry(now, next_time))
                           ELSE timeline
            /\ now' = next_time
            /\ pc' = "loop"
    /\ UNCHANGED <<tasks, horizon, jobs, release_counter,
                   missed_deadlines, unfinished_jobs, job, popped, result>>
    /\ UNCHANGED <<genVars, rtaVars, callVars>>

\* Mutant: the planned finish left out of the minimum.
NextEventWithoutFinish(planned_finish, next_release_time, h) ==
    Min2(next_release_time, h)

\* next_event = min(planned_finish, next_release_time, horizon)
NextEvent(planned_finish, next_release_time, h) ==
    Min2(planned_finish, Min2(next_release_time, h))

\* execution_time, before the "<= EPSILON" adjustment.
PlannedExecution(jobrec, future, t, h) ==
    LET next_release_time == IF future # <<>> THEN HeapTop(future)[1] ELSE Infinity
        planned_finish == t + jobrec.remaining_time
    IN Max2(0, NextEvent(planned_finish, next_release_time, h) - t)

\* execution_time as used for the segment.
ExecutionTime(jobrec, future, t, h) ==
    LET planned == PlannedExecution(jobrec, future, t, h) IN
    IF planned <= EPSILON THEN Min2(jobrec.remaining_time, h - t) ELSE planned

\* Mutant: the segment run is not taken from the remaining time.
RemainingUnchanged(remaining_time, execution_time) == remaining_time

\* job.remaining_time -= execution_time
RemainingAfter(remaining_time, execution_time) == remaining_time - execution_time

\* The popped job runs one segment.
Execute ==
    /\ pc = "run"
    /\ LET jobrec == jobs[job]
           execution_time == ExecutionTime(jobrec, future_jobs, now, horizon)
       IN
       IF execution_time <= EPSILON
       THEN \* break
            /\ pc' = "after"
            /\ UNCHANGED <<jobs, ready_jobs, ready_counter, now, timeline,
                           missed_deadlines, unfinished_jobs>>
       ELSE LET segment_end == now + execution_time
                segment == [task |-> jobrec.task.name, job |-> jobrec.instance,
                            start |-> now, end |-> Min2(segment_end, horizon),
                            deadline |-> jobrec.absolute_deadline,
                            completed |-> FALSE]
                remaining == RemainingAfter(jobrec.remaining_time, execution_time)
                finished == remaining <= EPSILON
                ran == [jobrec EXCEPT !.remaining_time = remaining,
                                      !.completed_at =
                                          IF finished THEN segment.end ELSE @]
            IN
            /\ now' = segment.end
            /\ jobs' = [jobs EXCEPT ![job] = ran]
            /\ timeline' = Append(timeline,
                                  [segment EXCEPT !.completed = finished])
            /\ missed_deadlines' =
                   IF finished /\ deadline_missed(ran)
                   THEN Append(missed_deadlines, job)
                   ELSE missed_deadlines
            /\ IF ~finished /\ segment.end < horizon
               THEN /\ ready_jobs' = heappush(ready_jobs,
                                              ReadyEntry(ran, ready_counter, job))
                    /\ ready_counter' = ready_counter + 1
               ELSE UNCHANGED <<ready_jobs, ready_counter>>
            /\ unfinished_jobs' =
                   IF ~finished /\ ~(segment.end < horizon)
                   THEN Append(unfinished_jobs, job)
                   ELSE unfinished_jobs
            /\ pc' = "loop"
    /\ UNCHANGED <<tasks, horizon, future_jobs, release_counter, job, popped,
                   result>>
    /\ UNCHANGED <<genVars, rtaVars, callVars>>

\* Mutant: the membership test negated.
JobInNegated(j, list) == ~(\E i \in 1..Len(list) : jobs[list[i]] = jobs[j])

\* "job not in unfinished_jobs": list membership by dataclass equality.
JobIn(j, list) == \E i \in 1..Len(list) : jobs[list[i]] = jobs[j]

\* for _, _, _, job in ready_jobs: append the unfinished ones not yet listed.
RECURSIVE CollectUnfinished(_, _, _)
CollectUnfinished(ready, i, list) ==
    IF i > Len(ready) THEN list
    ELSE LET j == ready[i][4] IN
         CollectUnfinished(ready, i + 1,
             IF jobs[j].remaining_time > EPSILON /\ ~JobIn(j, list)
             THEN Append(list, j) ELSE list)

Abs(x) == IF x < 0 THEN -x ELSE x

\* Mutant: entries are merged on task and job whether or not they touch.
RECURSIVE MergeIntoAnyGap(_, _)
MergeIntoAnyGap(merged, entries) ==
    IF entries = <<>> THEN merged
    ELSE LET entry == Head(entries)
             last == merged[Len(merged)]
         IN IF entry.end - entry.start <= EPSILON
            THEN MergeIntoAnyGap(merged, Tail(entries))
            ELSE IF /\ merged # <<>>
                    /\ entry.task = last.task
                    /\ entry.job = last.job
                    /\ entry.deadline = last.deadline
            THEN MergeIntoAnyGap([merged EXCEPT ![Len(merged)] =
                                     [last EXCEPT !.end = entry.end,
                                                  !.completed = entry.completed]],
                                 Tail(entries))
            ELSE MergeIntoAnyGap(Append(merged, entry), Tail(entries))

\* merge_timeline: `merged` so far, `entries` still to read.
RECURSIVE MergeInto(_, _)
MergeInto(merged, entries) ==
    IF entries = <<>> THEN merged
    ELSE LET entry == Head(entries)
             last == merged[Len(merged)]
         IN IF entry.end - entry.start <= EPSILON
            THEN MergeInto(merged, Tail(entries))
            ELSE IF /\ merged # <<>>
                    /\ entry.task = last.task
                    /\ entry.job = last.job
                    /\ entry.deadline = last.deadline
                    /\ Abs(entry.start - last.end) <= EPSILON
            THEN MergeInto([merged EXCEPT ![Len(merged)] =
                               [last EXCEPT !.end = entry.end,
                                            !.completed = entry.completed]],
                           Tail(entries))
            ELSE MergeInto(Append(merged, entry), Tail(entries))

merge_timeline(entries) == MergeInto(<<>>, entries)

\* After the loop: the unfinished jobs still in ready_jobs, the merge, the result.
Finish ==
    /\ pc = "after"
    /\ LET unfinished == CollectUnfinished(ready_jobs, 1, unfinished_jobs)
           merged == merge_timeline(timeline)
       IN /\ unfinished_jobs' = unfinished
          /\ timeline' = merged
          /\ result' = [timeline |-> merged,
                        missed_deadlines |-> missed_deadlines,
                        unfinished_jobs |-> unfinished,
                        simulation_end |-> Min2(now, horizon)]
    /\ pc' = "done"
    /\ UNCHANGED <<tasks, horizon, jobs, future_jobs, ready_jobs,
                   release_counter, ready_counter, now, missed_deadlines, job,
                   popped>>
    /\ UNCHANGED <<genVars, rtaVars, callVars>>

EdfNext == Start \/ LoopExit \/ Dispatch \/ Idle \/ Execute \/ Finish



(***************************************************************************)
(* Properties of simulate_edf.                                             *)
(***************************************************************************)
JobIds == 1..Len(jobs)

\* Summed duration of the entries of tl attributed to (name, instance).
RECURSIVE JobDuration(_, _, _)
JobDuration(tl, name, instance) ==
    IF tl = <<>> THEN 0
    ELSE (IF Head(tl).task = name /\ Head(tl).job = instance
          THEN Head(tl).end - Head(tl).start ELSE 0)
         + JobDuration(Tail(tl), name, instance)

Occurrences(list, x) == Cardinality({i \in 1..Len(list) : list[i] = x})

ReleasedIncomplete(k) ==
    jobs[k].release_time <= now /\ jobs[k].remaining_time > EPSILON

\* The key (absolute_deadline, release_time, enqueue sequence) of a queue entry,
\* read from the job it refers to.
KeyOf(e) == <<jobs[e[4]].absolute_deadline, jobs[e[4]].release_time, e[3]>>

\* C2: at every dispatch the job popped is released and incomplete, every other
\* released incomplete job waits in ready_jobs exactly once with a strictly
\* larger key (absolute_deadline, release_time, sequence), and none of them has
\* a strictly earlier absolute deadline than the job that runs.
C2_EarliestDeadlineFirst ==
    pc = "run" =>
        /\ popped[4] = job
        /\ ReleasedIncomplete(job)
        /\ \A k \in JobIds \ {job} :
               ReleasedIncomplete(k) =>
                   /\ Cardinality({i \in 1..Len(ready_jobs) : ready_jobs[i][4] = k}) = 1
                   /\ \A i \in 1..Len(ready_jobs) :
                          ready_jobs[i][4] = k =>
                              TupleLess(KeyOf(popped), KeyOf(ready_jobs[i]))
                   /\ jobs[job].absolute_deadline <= jobs[k].absolute_deadline

\* A dispatch decided by the sequence number alone: a waiting job has the
\* deadline and the release time of the job that runs.
C2_Witness ==
    /\ pc = "run"
    /\ \E i \in 1..Len(ready_jobs) :
           /\ jobs[ready_jobs[i][4]].absolute_deadline = jobs[job].absolute_deadline
           /\ jobs[ready_jobs[i][4]].release_time = jobs[job].release_time

CompletedLate(k) ==
    /\ jobs[k].completed_at # None
    /\ jobs[k].completed_at - jobs[k].absolute_deadline > EPSILON

\* C4: deadline_missed is true exactly of the jobs with completed_at set and
\* completed_at - absolute_deadline > EPSILON; missed_deadlines holds each
\* of these jobs once and no other job, in completion order, and is the list
\* returned.
C4_MissedDeadlines ==
    /\ \A k \in JobIds : deadline_missed(jobs[k]) <=> CompletedLate(k)
    /\ \A k \in JobIds :
           Occurrences(missed_deadlines, k) = IF CompletedLate(k) THEN 1 ELSE 0
    /\ \A i \in 1..Len(missed_deadlines) : missed_deadlines[i] \in JobIds
    /\ \A i, j \in 1..Len(missed_deadlines) :
           i < j => jobs[missed_deadlines[i]].completed_at
                        < jobs[missed_deadlines[j]].completed_at
    /\ pc = "done" => result.missed_deadlines = missed_deadlines

\* A run with two late completions, one job completed exactly at its deadline
\* and one completed before it.
C4_Witness ==
    /\ pc = "done"
    /\ Len(result.missed_deadlines) >= 2
    /\ \E k \in JobIds : jobs[k].completed_at = jobs[k].absolute_deadline
    /\ \E k \in JobIds : /\ jobs[k].completed_at # None
                         /\ jobs[k].completed_at < jobs[k].absolute_deadline

C6_IdleUntilHorizon ==
    (/\ pc = "done"
     /\ jobs # <<>>
     /\ future_jobs = <<>>
     /\ ready_jobs = <<>>
     /\ \A k \in JobIds : /\ jobs[k].completed_at # None
                          /\ jobs[k].completed_at < horizon)
    => /\ result.simulation_end = horizon
       /\ result.timeline # <<>>
       /\ result.timeline[Len(result.timeline)].task = "IDLE"
       /\ result.timeline[Len(result.timeline)].end = horizon

\* C7: generate_jobs(horizon, include_job_at_horizon=False) returns no job
\* released at the horizon, so future_jobs never holds one.
C7_NoJobAtHorizon ==
    /\ \A k \in JobIds : jobs[k].release_time # horizon
    /\ \A i \in 1..Len(future_jobs) : future_jobs[i][1] # horizon


(***************************************************************************)
(* Task.generate_jobs called on its own, with either value of              *)
(* include_job_at_horizon (ordonnanceur_edf/task.py).                      *)
(* gen_pc: "call" before the call, "returned" after it, "error" when it    *)
(* raised ValueError.                                                      *)
(***************************************************************************)
GenBlank ==
    /\ gen_task = Task("A", CHOOSE p \in TaskParams : TRUE)
    /\ gen_horizon = 0
    /\ gen_include = FALSE
    /\ gen_pc = "off"
    /\ gen_jobs = <<>>

GenInit ==
    /\ gen_task \in {Task("A", p) : p \in TaskParams}
    /\ gen_horizon \in Horizons
    /\ gen_include \in BOOLEAN
    /\ gen_pc = "call"
    /\ gen_jobs = <<>>

Generate ==
    /\ gen_pc = "call"
    /\ IF gen_horizon < 0
       THEN /\ gen_pc' = "error"
            /\ gen_jobs' = gen_jobs
       ELSE /\ gen_pc' = "returned"
            /\ gen_jobs' = generate_jobs(gen_task, gen_horizon, gen_include)
    /\ UNCHANGED <<gen_task, gen_horizon, gen_include>>
    /\ UNCHANGED <<edfVars, rtaVars, callVars>>

GenNext == Generate

(***************************************************************************)
(* check_feasibility (ordonnanceur_statique/analysis.py).                  *)
(*                                                                         *)
(* rpc is the position in check_feasibility:                               *)
(*   "start"  before _order_tasks,                                         *)
(*   "task"   at the head of "for idx, task in enumerate(ordered)",        *)
(*   "iter"   at the test of the while loop of _compute_response_time,     *)
(*   "done"   the report was returned,  "error"  an exception was raised.  *)
(* idx counts from 1.  trace lists the values `response` took for the task *)
(* under analysis, and traces keeps one such list per result.              *)
(***************************************************************************)
MAX_ITERATIONS == 1000

StaticNames == <<"A", "B", "C">>

\* Python's order on the names used: their position in StaticNames.
NameRank(name) == CHOOSE i \in 1..Len(StaticNames) : StaticNames[i] = name

\* Units by which the deadline of a StaticTask is shorter than its period.
DeadlineSlackUnits == {0, 1, 2}

\* Computation time, period (two units at least) and deadline of a StaticTask.
StaticParams ==
    {p \in [computation_time : {U(k) : k \in 1..MaxC},
            period           : {U(k) : k \in 2..MaxStaticT},
            deadline         : {U(k) : k \in 1..MaxStaticT}] :
        \E s \in DeadlineSlackUnits : p.deadline = p.period - U(s)}

\* Deadlines, in units, around the number of iterations allowed.
LongDeadlineUnits == {MAX_ITERATIONS - 1, MAX_ITERATIONS, MAX_ITERATIONS + 1}

\* Two tasks whose analysis lasts: A fills the processor (C = T = 1 unit), so
\* the response time of B rises by one unit at every iteration up to its
\* deadline.
LongParams ==
    {<<[computation_time |-> U(1), period |-> U(1), deadline |-> U(1)],
       [computation_time |-> U(1), period |-> U(2), deadline |-> U(d)]>> :
        d \in LongDeadlineUnits}

\* The parameters of n tasks.
ParamVectors(n) ==
    [1..n -> StaticParams] \cup (IF n = 2 THEN LongParams ELSE {})

\* StaticTask after __post_init__; priority is None or an integer.
StaticTask(name, p, priority) ==
    [name |-> name, computation_time |-> p.computation_time,
     period |-> p.period, deadline |-> p.deadline, priority |-> priority]

\* The priorities given to n tasks: none, 1..n in input order, n..1, the
\* first one missing, all equal.
PriorityVectors(n) ==
    {[i \in 1..n |-> None], [i \in 1..n |-> i], [i \in 1..n |-> n + 1 - i],
     [i \in 1..n |-> IF i = 1 THEN None ELSE i], [i \in 1..n |-> 1]}

Policies == {"RM", "DM", "dm", "HPF", "EDF"}

\* policy.upper() on the policies tried.
Upper(p) == IF p = "dm" THEN "DM" ELSE p

\* An exception: its class, what it reports and the task names in its message.
Exception(type, about, names) == [type |-> type, about |-> about, names |-> names]

\* No exception was raised.
NoError == Exception("", "", <<>>)

NoReport == [feasible |-> FALSE, policy |-> "", preemptive |-> FALSE,
             results |-> <<>>]

RtaLocalsBlank ==
    /\ ordered = <<>>
    /\ idx = 0
    /\ blocking = 0
    /\ response = 0
    /\ iterations = 0
    /\ results = <<>>
    /\ feasible = TRUE
    /\ report = NoReport
    /\ error = NoError
    /\ trace = <<>>
    /\ traces = <<>>

RtaBlank ==
    /\ stasks = <<>>
    /\ policy = "RM"
    /\ preemptive = TRUE
    /\ rpc = "off"
    /\ RtaLocalsBlank

\* check_feasibility is called on m tasks at most.  Priorities are tried with
\* HPF, the one policy that reads them.
RtaInitUpTo(m) ==
    /\ policy \in Policies
    /\ preemptive \in BOOLEAN
    /\ \E n \in 0..m :
           \E f \in ParamVectors(n) :
               \E pr \in IF policy = "HPF" THEN PriorityVectors(n)
                         ELSE {[i \in 1..n |-> None]} :
                   stasks = [i \in 1..n |-> StaticTask(StaticNames[i], f[i], pr[i])]
    /\ rpc = "start"
    /\ RtaLocalsBlank

RtaInit == RtaInitUpTo(Len(StaticNames))

\* Tasks that differ by their period only: C = 1 unit and deadline = period.
PlainParams ==
    {p \in StaticParams : p.computation_time = U(1) /\ p.deadline = p.period}

\* check_feasibility called under every policy on tasks each of which has a
\* priority in 1..n or none.
RtaInitPriorities ==
    /\ policy \in Policies
    /\ preemptive \in BOOLEAN
    /\ \E n \in 0..Len(StaticNames) :
           \E f \in [1..n -> PlainParams] :
               \E pr \in [1..n -> {None} \cup 1..n] :
                   stasks = [i \in 1..n |-> StaticTask(StaticNames[i], f[i], pr[i])]
    /\ rpc = "start"
    /\ RtaLocalsBlank

\* sorted(): a stable insertion sort of <<key, item>> pairs on the key.
RECURSIVE InsertPair(_, _)
InsertPair(sortedPairs, pair) ==
    IF sortedPairs = <<>> THEN <<pair>>
    ELSE IF TupleLess(pair[1], Head(sortedPairs)[1])
         THEN <<pair>> \o sortedPairs
         ELSE <<Head(sortedPairs)>> \o InsertPair(Tail(sortedPairs), pair)

RECURSIVE SortPairs(_)
SortPairs(pairs) ==
    IF pairs = <<>> THEN <<>>
    ELSE InsertPair(SortPairs(SubSeq(pairs, 1, Len(pairs) - 1)), pairs[Len(pairs)])

\* Mutant: under HPF the smallest priority value comes first.
OrderKeyAscendingPriority(task, policy_upper) ==
    IF policy_upper = "HPF" THEN <<task.priority, NameRank(task.name)>>
    ELSE IF policy_upper = "RM"
         THEN <<task.period, task.deadline, NameRank(task.name)>>
         ELSE <<task.deadline, task.period, NameRank(task.name)>>

\* Mutant: under DM the longest deadline comes first.
OrderKeyLongestDeadlineFirst(task, policy_upper) ==
    IF policy_upper = "HPF" THEN <<-task.priority, NameRank(task.name)>>
    ELSE IF policy_upper = "RM"
         THEN <<task.period, task.deadline, NameRank(task.name)>>
         ELSE <<-task.deadline, task.period, NameRank(task.name)>>

\* The sort key of a task under a policy (HPF, RM or DM).
OrderKey(task, policy_upper) ==
    IF policy_upper = "HPF" THEN <<-task.priority, NameRank(task.name)>>
    ELSE IF policy_upper = "RM"
         THEN <<task.period, task.deadline, NameRank(task.name)>>
         ELSE <<task.deadline, task.period, NameRank(task.name)>>

SortedBy(ts, policy_upper) ==
    LET sortedPairs == SortPairs([i \in 1..Len(ts) |->
                                     <<OrderKey(ts[i], policy_upper), ts[i]>>])
    IN [i \in 1..Len(ts) |-> sortedPairs[i][2]]

\* The task has no priority.
LacksPriority(task) == task.priority = None

\* [task.name for task in tasks]
RECURSIVE Names(_)
Names(ts) == IF ts = <<>> THEN <<>> ELSE <<Head(ts).name>> \o Names(Tail(ts))

\* Mutant: the test for a missing priority looks at the first task only.
OrderErrorFirstTaskOnly(ts, p) ==
    LET policy_upper == Upper(p)
        missing == Names(SelectSeq(SubSeq(ts, 1, Min2(1, Len(ts))), LacksPriority))
    IN
    IF policy_upper = "HPF"
    THEN IF missing # <<>>
         THEN Exception("ValueError", "missing priority", missing)
         ELSE IF Cardinality({ts[i].priority : i \in 1..Len(ts)}) # Len(ts)
              THEN Exception("ValueError", "duplicate priority", <<>>)
              ELSE NoError
    ELSE IF policy_upper \in {"RM", "DM"} THEN NoError
         ELSE Exception("ValueError", "unknown policy", <<>>)

\* _order_tasks: the exception it raises, NoError when it returns.
OrderError(ts, p) ==
    LET policy_upper == Upper(p)
        missing == Names(SelectSeq(ts, LacksPriority))
    IN
    IF policy_upper = "HPF"
    THEN IF missing # <<>>
         THEN Exception("ValueError", "missing priority", missing)
         ELSE IF Cardinality({ts[i].priority : i \in 1..Len(ts)}) # Len(ts)
              THEN Exception("ValueError", "duplicate priority", <<>>)
              ELSE NoError
    ELSE IF policy_upper \in {"RM", "DM"} THEN NoError
         ELSE Exception("ValueError", "unknown policy", <<>>)

\* _order_tasks: the list it returns.
order_tasks(ts, p) == SortedBy(ts, Upper(p))

Order ==
    /\ rpc = "start"
    /\ IF OrderError(stasks, policy) # NoError
       THEN /\ rpc' = "error"
            /\ error' = OrderError(stasks, policy)
            /\ UNCHANGED <<ordered, idx>>
       ELSE /\ rpc' = "task"
            /\ ordered' = order_tasks(stasks, policy)
            /\ idx' = 1
            /\ error' = error
    /\ UNCHANGED <<stasks, policy, preemptive, blocking, response, iterations,
                   results, feasible, report, trace, traces>>
    /\ UNCHANGED <<edfVars, genVars, callVars>>

RECURSIVE MaxComputation(_)
MaxComputation(ts) ==
    IF ts = <<>> THEN 0
    ELSE Max2(Head(ts).computation_time, MaxComputation(Tail(ts)))

\* Mutant: every other task blocks, those of higher priority included.
blocking_by_every_other_task(index, ord, preempt) ==
    IF preempt THEN 0
    ELSE MaxComputation(SubSeq(ord, 1, index - 1) \o SubSeq(ord, index + 1, Len(ord)))

\* Mutant: the preemptive flag read the wrong way round.
blocking_when_preemptive(index, ord, preempt) ==
    IF ~preempt THEN 0
    ELSE LET lower_priority == SubSeq(ord, index + 1, Len(ord)) IN
         IF lower_priority = <<>> THEN 0 ELSE MaxComputation(lower_priority)

\* _compute_blocking_time(index, ordered, preemptive), index counted from 1.
compute_blocking_time(index, ord, preempt) ==
    IF preempt THEN 0
    ELSE LET lower_priority == SubSeq(ord, index + 1, Len(ord)) IN
         IF lower_priority = <<>> THEN 0 ELSE MaxComputation(lower_priority)

\* The least integer >= a / b, for b > 0.
CeilDiv(a, b) == -((-a) \div b)

\* Mutant: the ratio rounded down.
FloorRatio(resp, period) ==
    (resp * TicksPerUnit - EPSILON * period) \div (period * TicksPerUnit)

\* math.ceil(response / hp_task.period - EPSILON).  The ratio is a pure number:
\* the EPSILON taken from it is 1 / TicksPerUnit.
CeilRatio(resp, period) ==
    CeilDiv(resp * TicksPerUnit - EPSILON * period, period * TicksPerUnit)

\* interference: the sum over higher_list.
RECURSIVE Interference(_, _)
Interference(resp, higher_list) ==
    IF higher_list = <<>> THEN 0
    ELSE CeilRatio(resp, Head(higher_list).period) * Head(higher_list).computation_time
         + Interference(resp, Tail(higher_list))

\* Mutant: the iteration starts from the period instead of the computation time.
InitialResponseFromPeriod(task, block) == task.period + block

\* response = task.computation_time + blocking
InitialResponse(task, block) == task.computation_time + block

\* ResponseTimeResult as check_feasibility builds it.
ResponseTimeResult(task, resp, iters, block, rank) ==
    [task |-> task, response_time |-> resp,
     deadline_met |-> (resp - task.deadline <= EPSILON),
     iterations |-> iters, blocking_time |-> block, priority_rank |-> rank]

\* Mutant: the task under analysis counts among those that interfere with it.
HigherListInclusive(ord, i) == SubSeq(ord, 1, i)

\* ordered[:idx], the tasks handed to _compute_response_time, idx counted from 1.
HigherList(ord, i) == SubSeq(ord, 1, i - 1)

\* The statements of the for loop after _compute_response_time returned
\* (resp, iters) for the task at idx.
Record(resp, iters, block, tr) ==
    LET res == ResponseTimeResult(ordered[idx], resp, iters, block, idx) IN
    /\ results' = Append(results, res)
    /\ feasible' = (feasible /\ res.deadline_met)
    /\ traces' = Append(traces, tr)
    /\ idx' = idx + 1
    /\ rpc' = "task"

\* Head of the for loop: blocking time, then _compute_response_time up to its
\* while loop (it returns at once when no task has a higher priority).
BeginTask ==
    /\ rpc = "task"
    /\ idx <= Len(ordered)
    /\ LET task == ordered[idx]
           block == compute_blocking_time(idx, ordered, preemptive)
           higher_list == HigherList(ordered, idx)
           resp == InitialResponse(task, block)
       IN /\ blocking' = block
          /\ response' = resp
          /\ iterations' = 0
          /\ trace' = <<resp>>
          /\ IF higher_list = <<>>
             THEN Record(resp, 0, block, <<resp>>)
             ELSE /\ rpc' = "iter"
                  /\ UNCHANGED <<results, feasible, traces, idx>>
    /\ UNCHANGED <<stasks, policy, preemptive, ordered, report, error>>
    /\ UNCHANGED <<edfVars, genVars, callVars>>

\* Mutant: one more iteration is allowed.
WithinLimitInclusive(iters) == iters <= MAX_ITERATIONS

\* while iterations < MAX_ITERATIONS
WithinLimit(iters) == iters < MAX_ITERATIONS

\* One pass of "while iterations < MAX_ITERATIONS", or the RuntimeError after it.
Iterate ==
    /\ rpc = "iter"
    /\ IF WithinLimit(iterations)
       THEN LET task == ordered[idx]
                higher_list == HigherList(ordered, idx)
                new_response == task.computation_time + blocking
                                + Interference(response, higher_list)
                tr == Append(trace, new_response)
            IN /\ iterations' = iterations + 1
               /\ trace' = tr
               /\ error' = error
               /\ IF \/ new_response - task.deadline > EPSILON
                     \/ Abs(new_response - response) <= EPSILON
                  THEN /\ Record(new_response, iterations + 1, blocking, tr)
                       /\ response' = response
                  ELSE /\ response' = new_response
                       /\ UNCHANGED <<results, feasible, traces, idx, rpc>>
       ELSE /\ rpc' = "error"
            /\ error' = Exception("RuntimeError", "no convergence", <<>>)
            /\ UNCHANGED <<iterations, trace, response, results, feasible,
                           traces, idx>>
    /\ UNCHANGED <<stasks, policy, preemptive, ordered, blocking, report>>
    /\ UNCHANGED <<edfVars, genVars, callVars>>

\* The for loop is over: the FeasibilityReport is returned.
Report ==
    /\ rpc = "task"
    /\ idx > Len(ordered)
    /\ report' = [feasible |-> feasible, policy |-> Upper(policy),
                  preemptive |-> preemptive, results |-> results]
    /\ rpc' = "done"
    /\ UNCHANGED <<stasks, policy, preemptive, ordered, idx, blocking, response,
                   iterations, results, feasible, error, trace, traces>>
    /\ UNCHANGED <<edfVars, genVars, callVars>>

RtaNext == Order \/ BeginTask \/ Iterate \/ Report

(***************************************************************************)
(* check_feasibility called twice on the same tasks: once the first call   *)
(* is over, a second one is made with the other policy of RM and DM, or    *)
(* without preemption after a call with it.  `first` keeps the arguments   *)
(* and the outcome of the first call.                                      *)
(***************************************************************************)
NoCall == [policy |-> "", preemptive |-> TRUE, rpc |-> "off", ordered |-> <<>>,
           report |-> NoReport, error |-> NoError]

\* The arguments <<policy, preemptive>> of the second call, one of the two
\* differing from the first call's.
SecondCalls(p, preempt) ==
    (IF Upper(p) = "RM" THEN {<<"DM", preempt>>} ELSE {})
        \cup (IF preempt THEN {<<p, FALSE>>} ELSE {})

CallAgain ==
    /\ rpc \in {"done", "error"}
    /\ first = NoCall
    /\ \E call \in SecondCalls(policy, preemptive) :
           /\ policy' = call[1]
           /\ preemptive' = call[2]
    /\ first' = [policy |-> policy, preemptive |-> preemptive, rpc |-> rpc,
                 ordered |-> ordered, report |-> report, error |-> error]
    /\ rpc' = "start"
    /\ ordered' = <<>>
    /\ idx' = 0
    /\ blocking' = 0
    /\ response' = 0
    /\ iterations' = 0
    /\ results' = <<>>
    /\ feasible' = TRUE
    /\ report' = NoReport
    /\ error' = NoError
    /\ trace' = <<>>
    /\ traces' = <<>>
    /\ UNCHANGED <<stasks, hpf_pc, hpf_result, hpf_error,
                   hpf_ordered, hpf_index, hpf_response, hpf_passes>>
    /\ UNCHANGED <<edfVars, genVars, ctorVars, hzVars, mergeVars>>

\* No other call is made beside the call of analysis.check_feasibility.
CmpBlank ==
    /\ first = NoCall
    /\ hpf_pc = "off"
    /\ hpf_result = FALSE
    /\ hpf_error = NoError
    /\ hpf_ordered = <<>>
    /\ hpf_index = 0
    /\ hpf_response = 0
    /\ hpf_passes = 0

\* check_feasibility under RM or DM on the task sets of the bounds.
RtaInitMonotonic ==
    /\ policy \in {"RM", "DM"}
    /\ preemptive \in BOOLEAN
    /\ \E n \in 0..Len(StaticNames) :
           \E f \in [1..n -> StaticParams] :
               stasks = [i \in 1..n |-> StaticTask(StaticNames[i], f[i], None)]
    /\ rpc = "start"
    /\ RtaLocalsBlank

(***************************************************************************)
(* check_feasibility (ordonnanceur_statique/hpf.py), called once the call  *)
(* of analysis.check_feasibility is over, with its policy and preemptive   *)
(* flag, on Task objects that have the names, computation times, periods   *)
(* and deadlines of its StaticTasks and offset 0.  hpf_pc is the position: *)
(*   "call"  before the call,                                              *)
(*   "task"  at the head of "for index, task in enumerate(ordered_tasks)", *)
(*   "pass"  at the head of "for _ in range(1000)",                        *)
(*   "done"  hpf_result was returned,  "error"  hpf_error was raised.      *)
(* hpf_index counts from 1; hpf_passes counts the passes made.             *)
(***************************************************************************)
\* for _ in range(1000)
HPF_PASSES == 1000

\* The Task objects handed to hpf.check_feasibility.
HpfTasks ==
    [i \in 1..Len(stasks) |->
        Task(stasks[i].name,
             [computation_time |-> stasks[i].computation_time,
              period |-> stasks[i].period, deadline |-> stasks[i].deadline,
              offset |-> 0])]

\* assign_priorities: the exception it raises, NoError when it returns.
AssignError(p) ==
    IF Upper(p) \in {"HPF", "RM", "DM"} THEN NoError
    ELSE Exception("ValueError", "unknown policy", <<>>)

\* assign_priorities: sorted(tasks, key=key), HPF standing for RM.
assign_priorities(ts, p) ==
    LET normalized == IF Upper(p) = "HPF" THEN "RM" ELSE Upper(p)
        key(task) == IF normalized = "RM"
                     THEN <<task.period, task.deadline, NameRank(task.name)>>
                     ELSE <<task.deadline, task.period, NameRank(task.name)>>
        sortedPairs == SortPairs([i \in 1..Len(ts) |-> <<key(ts[i]), ts[i]>>])
    IN [i \in 1..Len(ts) |-> sortedPairs[i][2]]

\* ordered_tasks = assign_priorities(tasks, policy)
HpfAssign ==
    /\ hpf_pc = "call"
    /\ rpc \in {"done", "error"}
    /\ IF AssignError(policy) # NoError
       THEN /\ hpf_pc' = "error"
            /\ hpf_error' = AssignError(policy)
            /\ UNCHANGED <<hpf_ordered, hpf_index>>
       ELSE /\ hpf_pc' = "task"
            /\ hpf_ordered' = assign_priorities(HpfTasks, policy)
            /\ hpf_index' = 1
            /\ hpf_error' = hpf_error
    /\ UNCHANGED <<first, hpf_result, hpf_response, hpf_passes>>
    /\ UNCHANGED <<edfVars, genVars, rtaVars, ctorVars, hzVars, mergeVars>>

\* blocking: 0.0 if preemptive, else max(computation times of ordered_tasks
\* after index, default=0.0); index counted from 1.
HpfBlocking(ordered_tasks, index, preempt) ==
    IF preempt THEN 0
    ELSE MaxComputation(SubSeq(ordered_tasks, index + 1, Len(ordered_tasks)))

\* Head of the for loop of check_feasibility: True when the list is exhausted;
\* else _compute_response_time up to its for loop.
HpfBeginTask ==
    /\ hpf_pc = "task"
    /\ IF hpf_index > Len(hpf_ordered)
       THEN /\ hpf_pc' = "done"
            /\ hpf_result' = TRUE
            /\ UNCHANGED <<hpf_error, hpf_response, hpf_passes>>
       ELSE LET task == hpf_ordered[hpf_index] IN
            IF task.offset > EPSILON
            THEN /\ hpf_pc' = "error"
                 /\ hpf_error' = Exception("ValueError", "offset", <<task.name>>)
                 /\ UNCHANGED <<hpf_result, hpf_response, hpf_passes>>
            ELSE /\ hpf_pc' = "pass"
                 /\ hpf_response' = task.computation_time
                                    + HpfBlocking(hpf_ordered, hpf_index, preemptive)
                 /\ hpf_passes' = 0
                 /\ UNCHANGED <<hpf_result, hpf_error>>
    /\ UNCHANGED <<first, hpf_ordered, hpf_index>>
    /\ UNCHANGED <<edfVars, genVars, rtaVars, ctorVars, hzVars, mergeVars>>

\* interference: the sum of math.ceil(response / hp_task.period) *
\* hp_task.computation_time over `higher`.
RECURSIVE HpfInterference(_, _)
HpfInterference(resp, higher) ==
    IF higher = <<>> THEN 0
    ELSE CeilDiv(resp, Head(higher).period) * Head(higher).computation_time
         + HpfInterference(resp, Tail(higher))

\* One pass of "for _ in range(1000)", or the RuntimeError after the last one.
\* A response of None makes check_feasibility return False; a response that
\* converged sends it to the next task.
HpfPass ==
    /\ hpf_pc = "pass"
    /\ IF hpf_passes < HPF_PASSES
       THEN LET task == hpf_ordered[hpf_index]
                higher == SubSeq(hpf_ordered, 1, hpf_index - 1)
                next_response == task.computation_time
                                 + HpfBlocking(hpf_ordered, hpf_index, preemptive)
                                 + HpfInterference(hpf_response, higher)
            IN /\ hpf_passes' = hpf_passes + 1
               /\ hpf_error' = hpf_error
               /\ IF next_response > task.deadline + EPSILON
                  THEN /\ hpf_pc' = "done"
                       /\ hpf_result' = FALSE
                       /\ UNCHANGED <<hpf_response, hpf_index>>
                  ELSE IF Abs(next_response - hpf_response) <= EPSILON
                       THEN /\ hpf_pc' = "task"
                            /\ hpf_index' = hpf_index + 1
                            /\ UNCHANGED <<hpf_response, hpf_result>>
                       ELSE /\ hpf_response' = next_response
                            /\ UNCHANGED <<hpf_pc, hpf_index, hpf_result>>
       ELSE /\ hpf_pc' = "error"
            /\ hpf_error' = Exception("RuntimeError", "no convergence", <<>>)
            /\ UNCHANGED <<hpf_passes, hpf_response, hpf_index, hpf_result>>
    /\ UNCHANGED <<first, hpf_ordered>>
    /\ UNCHANGED <<edfVars, genVars, rtaVars, ctorVars, hzVars, mergeVars>>

\* Computation times of whole units and of EPSILON more.
HpfParams ==
    {[p EXCEPT !.computation_time = @ + e] : p \in StaticParams, e \in {0, EPSILON}}

\* A task that fills the processor and misses a deadline shorter than its
\* computation time, then a task whose response time rises by one unit at
\* every pass without reaching its deadline.
StalledParams ==
    <<[computation_time |-> U(1), period |-> U(1), deadline |-> U(1) - 2 * EPSILON],
      [computation_time |-> U(1), period |-> U(2), deadline |-> U(HPF_PASSES + 1)]>>

\* Both functions are called under RM or DM on two tasks at most.
HpfInit ==
    /\ policy \in {"RM", "DM"}
    /\ preemptive \in BOOLEAN
    /\ \E n \in 0..2 :
           \E f \in [1..n -> HpfParams]
                    \cup (IF n = 2 THEN LongParams \cup {StalledParams} ELSE {}) :
               stasks = [i \in 1..n |-> StaticTask(StaticNames[i], f[i], None)]
    /\ rpc = "start"
    /\ RtaLocalsBlank
    /\ first = NoCall
    /\ hpf_pc = "call"
    /\ hpf_result = FALSE
    /\ hpf_error = NoError
    /\ hpf_ordered = <<>>
    /\ hpf_index = 0
    /\ hpf_response = 0
    /\ hpf_passes = 0

(***************************************************************************)
(* Task(...) of ordonnanceur_edf/task.py and StaticTask(...) of            *)
(* ordonnanceur_statique/task.py: the dataclass stores the arguments and    *)
(* __post_init__ converts and checks them.                                 *)
(* ctor_pc: "call" before the call, "built" when it returned the object,   *)
(* "error" when __post_init__ raised.                                      *)
(***************************************************************************)
\* The names tried: plain, padded with spaces, empty, blank.
CtorNames == {"A", " A ", "", " "}

\* str.strip() on the names tried.
Strip(name) == IF name = " A " THEN "A" ELSE IF name = " " THEN "" ELSE name

\* The numbers tried for computation_time, period and deadline: negative,
\* zero and positive.
CtorNumbers == {U(k) : k \in (-1)..MaxC}

TaskArgs ==
    [name : CtorNames, computation_time : CtorNumbers, period : CtorNumbers,
     deadline : {None} \cup CtorNumbers, offset : {U(-1), 0, U(1)}]

StaticTaskArgs ==
    [name : CtorNames, computation_time : CtorNumbers, period : CtorNumbers,
     deadline : {None} \cup CtorNumbers, priority : {None, 1, 2}]

\* self.deadline after "if self.deadline is None: self.deadline = self.period".
DefaultedDeadline(a) == IF a.deadline = None THEN a.period ELSE a.deadline

\* Task.__post_init__: the exception it raises, NoError when it returns.
TaskPostInitError(a) ==
    IF a.computation_time <= 0
    THEN Exception("ValueError", "computation time", <<a.name>>)
    ELSE IF a.period <= 0
    THEN Exception("ValueError", "period", <<a.name>>)
    ELSE IF DefaultedDeadline(a) <= 0
    THEN Exception("ValueError", "deadline", <<a.name>>)
    ELSE IF a.offset < 0
    THEN Exception("ValueError", "offset", <<a.name>>)
    ELSE NoError

\* The Task that the call leaves when __post_init__ returns.
TaskBuilt(a) ==
    [name |-> a.name, computation_time |-> a.computation_time,
     period |-> a.period, deadline |-> DefaultedDeadline(a), offset |-> a.offset]

\* StaticTask.__post_init__: the exception it raises, NoError when it returns.
StaticTaskPostInitError(a) ==
    IF Strip(a.name) = ""
    THEN Exception("ValueError", "name", <<>>)
    ELSE IF a.computation_time <= 0
    THEN Exception("ValueError", "computation time", <<Strip(a.name)>>)
    ELSE IF a.period <= 0
    THEN Exception("ValueError", "period", <<Strip(a.name)>>)
    ELSE IF DefaultedDeadline(a) <= 0
    THEN Exception("ValueError", "deadline", <<Strip(a.name)>>)
    ELSE NoError

\* The StaticTask that the call leaves when __post_init__ returns.
StaticTaskBuilt(a) ==
    [name |-> Strip(a.name), computation_time |-> a.computation_time,
     period |-> a.period, deadline |-> DefaultedDeadline(a), priority |-> a.priority]

NoObject == [name |-> ""]

CtorBlank ==
    /\ ctor_cls = ""
    /\ ctor_args = [name |-> ""]
    /\ ctor_pc = "off"
    /\ ctor_obj = NoObject
    /\ ctor_error = NoError

CtorInit ==
    /\ \/ ctor_cls = "Task" /\ ctor_args \in TaskArgs
       \/ ctor_cls = "StaticTask" /\ ctor_args \in StaticTaskArgs
    /\ ctor_pc = "call"
    /\ ctor_obj = NoObject
    /\ ctor_error = NoError

\* Task(name, computation_time, period, deadline, offset)
NewTask ==
    /\ ctor_pc = "call"
    /\ ctor_cls = "Task"
    /\ IF TaskPostInitError(ctor_args) # NoError
       THEN /\ ctor_pc' = "error"
            /\ ctor_error' = TaskPostInitError(ctor_args)
            /\ ctor_obj' = ctor_obj
       ELSE /\ ctor_pc' = "built"
            /\ ctor_obj' = TaskBuilt(ctor_args)
            /\ ctor_error' = ctor_error
    /\ UNCHANGED <<ctor_cls, ctor_args>>
    /\ UNCHANGED <<edfVars, genVars, rtaVars, hzVars, cmpVars, mergeVars>>

\* StaticTask(name, computation_time, period, deadline, priority)
NewStaticTask ==
    /\ ctor_pc = "call"
    /\ ctor_cls = "StaticTask"
    /\ IF StaticTaskPostInitError(ctor_args) # NoError
       THEN /\ ctor_pc' = "error"
            /\ ctor_error' = StaticTaskPostInitError(ctor_args)
            /\ ctor_obj' = ctor_obj
       ELSE /\ ctor_pc' = "built"
            /\ ctor_obj' = StaticTaskBuilt(ctor_args)
            /\ ctor_error' = ctor_error
    /\ UNCHANGED <<ctor_cls, ctor_args>>
    /\ UNCHANGED <<edfVars, genVars, rtaVars, hzVars, cmpVars, mergeVars>>

CtorNext == NewTask \/ NewStaticTask

(***************************************************************************)
(* compute_default_horizon (ordonnanceur_edf/main.py).                     *)
(*                                                                         *)
(* The function tells periods that are within EPSILON of an integer from   *)
(* the others, so its periods and its result are counted in halves of a    *)
(* tick: a period of one half tick is positive and smaller than EPSILON.   *)
(* hz_pc: "call" before the call, "returned" after it.                     *)
(***************************************************************************)
HalfTicksPerUnit == 2 * TicksPerUnit

\* k units, in half ticks.
PeriodOf(k) == k * HalfTicksPerUnit

\* The ceiling on the hyperperiod.
HyperperiodCeiling == 500

\* Periods, in units, whose least common multiples pass the ceiling.
LargePeriodUnits == {21, 25, 500, 1000}

\* The periods tried: half of EPSILON, whole units, two units and half of
\* EPSILON, two units and a half, and the large ones.
HorizonPeriods ==
    {1} \cup {PeriodOf(k) : k \in 1..MaxT}
        \cup {PeriodOf(2) + 1, PeriodOf(2) + TicksPerUnit}
        \cup {PeriodOf(k) : k \in LargePeriodUnits}

\* round(value): the nearest integer, the even one when two are as near.
Round(value) ==
    LET q == value \div HalfTicksPerUnit
        r == value % HalfTicksPerUnit
    IN IF 2 * r < HalfTicksPerUnit THEN q
       ELSE IF 2 * r > HalfTicksPerUnit THEN q + 1
       ELSE IF q % 2 = 0 THEN q ELSE q + 1

\* abs(value - rounded) < EPSILON
NearInteger(value) == Abs(value - PeriodOf(Round(value))) < 2 * EPSILON

RECURSIVE Gcd(_, _)
Gcd(a, b) == IF b = 0 THEN a ELSE Gcd(b, a % b)

\* math.lcm(a, b) for a, b >= 0
Lcm(a, b) == IF a = 0 \/ b = 0 THEN 0 ELSE (a * b) \div Gcd(a, b)

\* int_periods after the first loop: the rounded periods, or [] as soon as a
\* period is not within EPSILON of an integer.
IntPeriods(ps) ==
    IF \A i \in 1..Len(ps) : NearInteger(ps[i])
    THEN [i \in 1..Len(ps) |-> Round(ps[i])]
    ELSE <<>>

\* The second loop: hyperperiod after the periods left, with its break.
RECURSIVE RunningLcm(_, _)
RunningLcm(hyperperiod, left) ==
    IF left = <<>> THEN hyperperiod
    ELSE LET next == Lcm(hyperperiod, Head(left)) IN
         IF next > HyperperiodCeiling THEN next ELSE RunningLcm(next, Tail(left))

RECURSIVE MaxOf(_)
MaxOf(ps) == IF Len(ps) = 1 THEN ps[1] ELSE Max2(Head(ps), MaxOf(Tail(ps)))

\* compute_default_horizon on tasks with the periods ps, in half ticks.
compute_default_horizon(ps) ==
    IF ps = <<>> THEN 0
    ELSE LET max_period == MaxOf(ps)
             int_periods == IntPeriods(ps)
             hyperperiod == RunningLcm(int_periods[1], Tail(int_periods))
         IN IF int_periods # <<>> /\ hyperperiod <= HyperperiodCeiling
            THEN PeriodOf(hyperperiod)
            ELSE max_period * Max2(3, Len(ps))

\* Three tasks at most.
HzPeriodLists == UNION {[1..n -> HorizonPeriods] : n \in 0..3}

HzBlank ==
    /\ periods = <<>>
    /\ hz_pc = "off"
    /\ hz_result = None

HzInit ==
    /\ periods \in HzPeriodLists
    /\ hz_pc = "call"
    /\ hz_result = None

ComputeDefaultHorizon ==
    /\ hz_pc = "call"
    /\ hz_result' = compute_default_horizon(periods)
    /\ hz_pc' = "returned"
    /\ UNCHANGED periods
    /\ UNCHANGED <<edfVars, genVars, rtaVars, ctorVars, cmpVars, mergeVars>>

HzNext == ComputeDefaultHorizon

(***************************************************************************)
(* merge_timeline (ordonnanceur_edf/main.py) called on its own.            *)
(* mt_pc: "call" before the call, "merged" when it returned mt_merged,     *)
(* "again" when a second call, on mt_merged, returned mt_again.            *)
(***************************************************************************)
\* The jobs the entries belong to, <<task, job, deadline>>: two jobs of one
\* task and a job of another.
EntryJobs == {<<"A", 1, U(4)>>, <<"A", 2, U(8)>>, <<"B", 1, U(5)>>}

\* The lengths tried for an entry, and for the gap between the end of the
\* entry before it and its start: none, EPSILON, more than EPSILON.
EntryTicks == {0, EPSILON, 2 * EPSILON}

EntryShapes == [owner : EntryJobs, length : EntryTicks, gap : EntryTicks]

\* The entries of the shapes, in chronological order from `start` on; the last
\* one is flagged completed.
RECURSIVE EntriesFrom(_, _)
EntriesFrom(shapes, start) ==
    IF shapes = <<>> THEN <<>>
    ELSE LET shape == Head(shapes)
             entry == [task |-> shape.owner[1], job |-> shape.owner[2],
                       start |-> start + shape.gap,
                       end |-> start + shape.gap + shape.length,
                       deadline |-> shape.owner[3],
                       completed |-> (Len(shapes) = 1)]
         IN <<entry>> \o EntriesFrom(Tail(shapes), entry.end)

MergeBlank ==
    /\ mt_entries = <<>>
    /\ mt_pc = "off"
    /\ mt_merged = <<>>
    /\ mt_again = <<>>

\* merge_timeline is called on a list of MaxEntries entries at most.
MergeInit ==
    /\ \E n \in 0..MaxEntries :
           \E shapes \in [1..n -> EntryShapes] :
               mt_entries = EntriesFrom(shapes, 0)
    /\ mt_pc = "call"
    /\ mt_merged = <<>>
    /\ mt_again = <<>>

\* merged = merge_timeline(entries)
MergeTimeline ==
    /\ mt_pc = "call"
    /\ mt_merged' = merge_timeline(mt_entries)
    /\ mt_pc' = "merged"
    /\ UNCHANGED <<mt_entries, mt_again>>
    /\ UNCHANGED <<edfVars, genVars, rtaVars, ctorVars, hzVars, cmpVars>>

\* merge_timeline(merged)
MergeAgain ==
    /\ mt_pc = "merged"
    /\ mt_again' = merge_timeline(mt_merged)
    /\ mt_pc' = "again"
    /\ UNCHANGED <<mt_entries, mt_merged>>
    /\ UNCHANGED <<edfVars, genVars, rtaVars, ctorVars, hzVars, cmpVars>>

MergeNext == MergeTimeline \/ MergeAgain

(***************************************************************************)
(* Specifications.                                                         *)
(***************************************************************************)
\* The programs that are one call each are not called.
CallsOff == CtorBlank /\ HzBlank /\ CmpBlank /\ MergeBlank

EdfOff ==
    /\ tasks = <<>>
    /\ horizon = 0
    /\ pc = "off"
    /\ EdfBlank

\* simulate_edf on every task set and horizon of the bounds.
Init == EdfInit /\ GenBlank /\ RtaBlank /\ CallsOff

Next == EdfNext

Spec == Init /\ [][Next]_vars

\* The overloaded pair A(C=3, T=4, D=4), B(C=3, T=5, D=5), released at 0.
OverloadTasks ==
    <<[name |-> "A", computation_time |-> U(3), period |-> U(4),
       deadline |-> U(4), offset |-> 0],
      [name |-> "B", computation_time |-> U(3), period |-> U(5),
       deadline |-> U(5), offset |-> 0]>>

\* The hyperperiod of the pair, in units.
OverloadHyperperiod == Lcm(4, 5)

\* The horizons from one hyperperiod to MaxOverloadHorizon units, by half units.
OverloadHorizons ==
    {h \in U(OverloadHyperperiod)..U(MaxOverloadHorizon) :
        h % (TicksPerUnit \div 2) = 0}

\* The feasible pair A(C=1, T=3, D=3), B(C=1, T=5, D=5), released at 0.
FeasibleTasks ==
    <<[name |-> "A", computation_time |-> U(1), period |-> U(3),
       deadline |-> U(3), offset |-> 0],
      [name |-> "B", computation_time |-> U(1), period |-> U(5),
       deadline |-> U(5), offset |-> 0]>>

\* The hyperperiod of the feasible pair, in units.
FeasibleHyperperiod == Lcm(3, 5)

\* The single task T(C=2, T=7, D=7), released at 0.
SingleTask ==
    <<[name |-> "T", computation_time |-> U(2), period |-> U(7),
       deadline |-> U(7), offset |-> 0]>>

\* The calls of simulate_edf on the scenarios: the single task over its period,
\* the feasible pair over its hyperperiod, the overloaded pair over each horizon
\* of OverloadHorizons.
ScenarioCalls ==
    {<<SingleTask, SingleTask[1].period>>,
     <<FeasibleTasks, U(FeasibleHyperperiod)>>}
        \cup {<<OverloadTasks, h>> : h \in OverloadHorizons}

InitScenarios ==
    /\ \E call \in ScenarioCalls :
          /\ tasks = call[1]
          /\ horizon = call[2]
    /\ pc = "start"
    /\ EdfBlank
    /\ GenBlank
    /\ RtaBlank
    /\ CallsOff

SpecScenarios == InitScenarios /\ [][EdfNext]_vars

\* simulate_edf on task sets whose parameters differ by EPSILON: a computation
\* time of EPSILON, a first release EPSILON before a whole unit, a horizon
\* EPSILON after one.
EpsilonParams ==
    [computation_time : {EPSILON, U(1)},
     period           : {U(1), U(2)},
     deadline         : {U(1), U(2)},
     offset           : {0, U(1) - EPSILON}]

InitEpsilon ==
    /\ \E n \in 0..Len(TaskNames) : \E f \in [1..n -> EpsilonParams] :
           tasks = [i \in 1..n |-> Task(TaskNames[i], f[i])]
    /\ horizon \in {U(1), U(2), U(2) + EPSILON}
    /\ pc = "start"
    /\ EdfBlank /\ GenBlank /\ RtaBlank /\ CallsOff

SpecEpsilon == InitEpsilon /\ [][EdfNext]_vars

\* One call, of simulate_edf or of generate_jobs, on every input of the bounds.
InitEdfOrGen ==
    /\ \/ EdfInit /\ GenBlank
       \/ GenInit /\ EdfOff
    /\ RtaBlank
    /\ CallsOff

SpecEdfOrGen == InitEdfOrGen /\ [][EdfNext \/ GenNext]_vars

\* One call, of simulate_edf on every input of the bounds or of merge_timeline
\* on every list of entries tried.
InitEdfOrMerge ==
    /\ \/ EdfInit /\ MergeBlank
       \/ MergeInit /\ EdfOff
    /\ GenBlank
    /\ RtaBlank
    /\ CtorBlank
    /\ HzBlank
    /\ CmpBlank

SpecEdfOrMerge == InitEdfOrMerge /\ [][EdfNext \/ MergeNext]_vars

\* generate_jobs on every task, horizon and flag of the bounds.
InitGen == GenInit /\ EdfOff /\ RtaBlank /\ CallsOff

SpecGen == InitGen /\ [][GenNext]_vars

\* check_feasibility on every task set, policy and preemption flag of the bounds.
InitRta == RtaInit /\ EdfOff /\ GenBlank /\ CallsOff

SpecRta == InitRta /\ [][RtaNext]_vars

\* check_feasibility on tasks with and without priorities, under every policy.
InitRtaPriorities == RtaInitPriorities /\ EdfOff /\ GenBlank /\ CallsOff

SpecRtaPriorities == InitRtaPriorities /\ [][RtaNext]_vars

\* check_feasibility on one or two tasks, run to its end: a sequential call
\* keeps taking its next step.
InitRtaPair == RtaInitUpTo(2) /\ EdfOff /\ GenBlank /\ CallsOff

FairSpecRta == InitRtaPair /\ [][RtaNext]_vars /\ WF_vars(RtaNext)

\* Task(...) and StaticTask(...) on every combination of the arguments tried.
InitCtor == CtorInit /\ HzBlank /\ CmpBlank /\ MergeBlank /\ EdfOff /\ GenBlank /\ RtaBlank

SpecCtor == InitCtor /\ [][CtorNext]_vars

\* compute_default_horizon on every list of periods tried.
InitHorizon == HzInit /\ CtorBlank /\ CmpBlank /\ MergeBlank /\ EdfOff /\ GenBlank /\ RtaBlank

\* check_feasibility called twice on the same tasks, under RM and DM.
InitRtaTwice == RtaInitMonotonic /\ EdfOff /\ GenBlank /\ CallsOff

SpecRtaTwice == InitRtaTwice /\ [][RtaNext \/ CallAgain]_vars

\* analysis.check_feasibility and hpf.check_feasibility on the same tasks.
InitHpf ==
    /\ HpfInit
    /\ EdfOff /\ GenBlank /\ CtorBlank /\ HzBlank /\ MergeBlank

SpecHpf == InitHpf /\ [][RtaNext \/ HpfAssign \/ HpfBeginTask \/ HpfPass]_vars

SpecHorizon == InitHorizon /\ [][HzNext]_vars


(***************************************************************************)
(* Properties of Task.generate_jobs.                                       *)
(***************************************************************************)
\* C8: for every task and horizon >= 0 generate_jobs returns, and the jobs it
\* returns are instances 1, 2, ..., n in order, job k released at
\* offset + (k - 1) * period, with absolute_deadline = release_time + deadline
\* and remaining_time = computation_time, each referring to the task, whose
\* fields are those it had before the call.
C8_GeneratedJobs ==
    /\ gen_pc = "error" => gen_horizon < 0
    /\ gen_pc = "returned" =>
           \A k \in 1..Len(gen_jobs) :
               LET j == gen_jobs[k] IN
               /\ j.instance = k
               /\ j.release_time = gen_task.offset + (k - 1) * gen_task.period
               /\ j.absolute_deadline = j.release_time + gen_task.deadline
               /\ j.remaining_time = gen_task.computation_time
               /\ j.task = gen_task

\* A call that returned three jobs or more of a task released with an offset
\* and whose deadline differs from its period.
C8_Witness ==
    /\ gen_pc = "returned"
    /\ Len(gen_jobs) >= 3
    /\ gen_task.offset > 0
    /\ gen_task.deadline # gen_task.period

(***************************************************************************)
(* Properties of the response-time analysis.                               *)
(***************************************************************************)
\* The tasks before position i of the priority order.
HigherPriority(i) == SubSeq(ordered, 1, i - 1)

\* C + B + sum over h in H of ceil(x / h.period) * h.computation_time
RECURSIVE Demand(_, _)
Demand(x, H) ==
    IF H = <<>> THEN 0
    ELSE CeilDiv(x, Head(H).period) * Head(H).computation_time + Demand(x, Tail(H))

Recurrence(i, x) ==
    results[i].task.computation_time + results[i].blocking_time
        + Demand(x, HigherPriority(i))

\* The test that ends the iteration after the step from tr[n] to tr[n + 1].
Overshoot(i, x) == x - results[i].task.deadline > EPSILON
Stops(i, tr, n) == Overshoot(i, tr[n + 1]) \/ Abs(tr[n + 1] - tr[n]) <= EPSILON

NonDecreasing(tr) == \A n \in 1..(Len(tr) - 1) : tr[n] <= tr[n + 1]

\* C11: the values R0, R1, ... that response takes for a task never decrease
\* from one iteration to the next, while the iteration runs and in every list
\* of values that ended in a convergence or a rejection.
C11_ResponseNonDecreasing ==
    /\ rpc = "iter" => NonDecreasing(trace)
    /\ \A i \in 1..Len(traces) : NonDecreasing(traces[i])

\* A task rejected after its response time rose three times, beside one whose
\* response time rose and then converged.
C11_Witness ==
    /\ \E i \in 1..Len(results) :
           /\ ~results[i].deadline_met
           /\ Len(traces[i]) >= 4
           /\ \A n \in 1..3 : traces[i][n] < traces[i][n + 1]
    /\ \E i \in 1..Len(results) :
           /\ results[i].deadline_met
           /\ Len(traces[i]) >= 3
           /\ traces[i][1] < traces[i][2]

\* The RuntimeError of _compute_response_time left check_feasibility.
ConvergenceError == rpc = "error" /\ error.type = "RuntimeError"

\* C12: the iteration for a task always ends (by convergence, by rejection or
\* by the convergence error), never after more than MAX_ITERATIONS iterations;
\* the error is raised after exactly MAX_ITERATIONS iterations none of which
\* converged or overshot the deadline; it ends check_feasibility, which then
\* returns no report and analyses no further task; and every call ends, with
\* a report or an error.
C12_IterationEnds ==
    /\ [](iterations <= MAX_ITERATIONS)
    /\ [](rpc = "iter" => <>(rpc # "iter"))
    /\ <>(rpc \in {"done", "error"})
    /\ [](ConvergenceError =>
             /\ iterations = MAX_ITERATIONS
             /\ Len(trace) = MAX_ITERATIONS + 1
             /\ \A n \in 1..MAX_ITERATIONS :
                    /\ trace[n + 1] - ordered[idx].deadline <= EPSILON
                    /\ Abs(trace[n + 1] - trace[n]) > EPSILON
             /\ report = NoReport
             /\ idx <= Len(ordered)
             /\ Len(results) = idx - 1)
    /\ [][rpc \notin {"done", "error"}]_vars

\* The convergence error was raised after MAX_ITERATIONS iterations, on the
\* second task of the order.
C12_Witness ==
    /\ ConvergenceError
    /\ iterations = MAX_ITERATIONS
    /\ results # <<>>

\* The number of positions of the list ts that hold the task t.
CountIn(ts, t) == Cardinality({i \in 1..Len(ts) : ts[i] = t})

\* C13: the report holds one result per input task, the result at position i
\* being that of the i-th task of the priority order with priority_rank = i;
\* its response time is C + B when i = 1 and otherwise the value the
\* recurrence over exactly the tasks at positions 1..i-1 gives from the value
\* before it; and feasible is true iff deadline_met is true of every result.
C13_ReportPerTask ==
    rpc = "done" =>
        /\ Len(report.results) = Len(stasks)
        /\ \A t \in {stasks[i] : i \in 1..Len(stasks)} :
               Cardinality({i \in 1..Len(report.results) : report.results[i].task = t})
                   = CountIn(stasks, t)
        /\ \A i \in 1..Len(report.results) :
               LET r == report.results[i] IN
               /\ r = results[i]
               /\ r.task = ordered[i]
               /\ r.priority_rank = i
               /\ r.response_time =
                      IF i = 1 THEN r.task.computation_time + r.blocking_time
                      ELSE Recurrence(i, traces[i][Len(traces[i]) - 1])
        /\ report.feasible <=>
               \A i \in 1..Len(report.results) : report.results[i].deadline_met
        /\ report.policy = Upper(policy)
        /\ report.preemptive = preemptive

\* A report on three tasks, returned in an order that is not the input order,
\* where the task of rank 2 meets its deadline after interference and the task
\* of rank 3 misses it.
C13_Witness ==
    /\ rpc = "done"
    /\ Len(report.results) = 3
    /\ ordered # stasks
    /\ report.results[2].deadline_met
    /\ report.results[2].iterations >= 2
    /\ ~report.results[3].deadline_met
    /\ ~report.feasible

\* The computation times of the tasks strictly after position i of the order.
LowerComputations(i) ==
    {ordered[k].computation_time : k \in (i + 1)..Len(ordered)}

\* C14: the blocking time of the task at position i of the order is 0 when
\* preemptive is true; otherwise it is 0 for the last task and, for any other,
\* the largest computation_time among the tasks strictly after position i.
C14_BlockingTime ==
    \A i \in 1..Len(results) :
        LET b == results[i].blocking_time IN
        IF preemptive \/ LowerComputations(i) = {}
        THEN b = 0
        ELSE /\ b \in LowerComputations(i)
             /\ \A c \in LowerComputations(i) : c <= b

\* A non-preemptive analysis of three tasks where the task of rank 3 is shorter
\* than those of rank 1 and 2: the task of rank 2 is blocked for less than the
\* computation time of the task of rank 1.
C14_Witness ==
    /\ ~preemptive
    /\ Len(results) = 3
    /\ results[2].blocking_time > 0
    /\ results[2].blocking_time < ordered[1].computation_time
    /\ results[1].blocking_time > results[2].blocking_time
    /\ results[3].blocking_time = 0

\* The task a comes before the task b under the policy p (RM, DM or HPF).
Before(a, b, p) ==
    LET byName == NameRank(a.name) < NameRank(b.name) IN
    IF p = "RM"
    THEN \/ a.period < b.period
         \/ a.period = b.period /\ a.deadline < b.deadline
         \/ a.period = b.period /\ a.deadline = b.deadline /\ byName
    ELSE IF p = "DM"
    THEN \/ a.deadline < b.deadline
         \/ a.deadline = b.deadline /\ a.period < b.period
         \/ a.deadline = b.deadline /\ a.period = b.period /\ byName
    ELSE \/ a.priority > b.priority
         \/ a.priority = b.priority /\ byName

UnknownPolicy == Upper(policy) \notin {"RM", "DM", "HPF"}
MissingPriority ==
    Upper(policy) = "HPF" /\ \E i \in 1..Len(stasks) : stasks[i].priority = None
DuplicatePriority ==
    /\ Upper(policy) = "HPF"
    /\ \E i, j \in 1..Len(stasks) :
           i # j /\ stasks[i].priority # None /\ stasks[i].priority = stasks[j].priority

\* The state part of C16.
C16_ErrorCases ==
    /\ rpc = "error" <=>
           (rpc # "start" /\ (UnknownPolicy \/ MissingPriority \/ DuplicatePriority))
    /\ rpc = "error" =>
           /\ error.type = "ValueError"
           /\ results = <<>> /\ traces = <<>> /\ trace = <<>> /\ ordered = <<>>
           /\ report = NoReport
           /\ error.about = IF UnknownPolicy THEN "unknown policy"
                             ELSE IF MissingPriority THEN "missing priority"
                             ELSE "duplicate priority"
           /\ MissingPriority =>
                  /\ \A i \in 1..Len(stasks) :
                         stasks[i].priority = None <=>
                             \E k \in 1..Len(error.names) : error.names[k] = stasks[i].name
                  /\ Len(error.names) =
                         Cardinality({i \in 1..Len(stasks) : stasks[i].priority = None})

\* C16: check_feasibility raises ValueError, with no result computed and no
\* report, exactly when the policy is not RM, DM or HPF, or the policy is HPF
\* and a task has no priority or two tasks have the same one.  A missing
\* priority is reported before a duplicate one, with the names of all the
\* tasks that lack a priority and of no other.  Under RM and DM priorities
\* raise no error.
C16_OrderingErrors ==
    /\ []C16_ErrorCases
    /\ [][rpc # "error"]_vars

\* HPF refused three tasks of which two lack a priority, the second and the
\* third.
C16_Witness ==
    /\ rpc = "error"
    /\ Len(stasks) = 3
    /\ stasks[1].priority # None
    /\ error.names = <<"B", "C">>

(***************************************************************************)
(* Properties of the construction of tasks.                                *)
(***************************************************************************)
\* The arguments that the construction must refuse.
InvalidArgs ==
    \/ Strip(ctor_args.name) = ""
    \/ ctor_args.computation_time <= 0
    \/ ctor_args.period <= 0
    \/ ctor_args.deadline # None /\ ctor_args.deadline <= 0
    \/ ctor_cls = "Task" /\ ctor_args.offset < 0

\* C17: constructing a Task or a StaticTask raises ValueError when the name is
\* empty, computation_time, period or deadline is <= 0, or the offset of a
\* Task is < 0; otherwise it returns the task, whose deadline is the period
\* when none was given, even when computation_time exceeds the deadline.
C17_ConstructionValidation ==
    /\ ctor_pc = "error" => InvalidArgs /\ ctor_error.type = "ValueError"
    /\ ctor_pc = "built" =>
           /\ ~InvalidArgs
           /\ ctor_obj.computation_time = ctor_args.computation_time
           /\ ctor_obj.period = ctor_args.period
           /\ ctor_obj.deadline = IF ctor_args.deadline = None THEN ctor_args.period
                                   ELSE ctor_args.deadline

(***************************************************************************)
(* Properties of compute_default_horizon.                                  *)
(***************************************************************************)
\* The least common multiple of all the rounded periods.
RECURSIVE FullLcm(_)
FullLcm(ps) ==
    IF Len(ps) = 1 THEN Round(ps[1]) ELSE Lcm(Round(Head(ps)), FullLcm(Tail(ps)))

\* C19: compute_default_horizon returns 0 for no task; the least common
\* multiple of the periods when all are integers (within EPSILON) and that
\* multiple, computed in full, is at most 500; and max(period) * max(3, n) in
\* every other case.
C19_DefaultHorizon ==
    hz_pc = "returned" =>
        hz_result =
            IF periods = <<>> THEN 0
            ELSE IF /\ \A i \in 1..Len(periods) : NearInteger(periods[i])
                    /\ FullLcm(periods) <= HyperperiodCeiling
                 THEN PeriodOf(FullLcm(periods))
                 ELSE MaxOf(periods) * Max2(3, Len(periods))

(***************************************************************************)
(* Properties of the horizon argument.                                     *)
(***************************************************************************)
\* C18: simulate_edf and generate_jobs raise ValueError exactly when the
\* horizon is negative, simulate_edf before any job, queue, clock or timeline
\* exists and generate_jobs before any job is built; with horizon = 0
\* simulate_edf returns an empty timeline, no missed deadline, no unfinished
\* job and simulation_end = 0.
C18_HorizonValidation ==
    /\ pc = "error" <=> (pc \notin {"start", "off"} /\ horizon < 0)
    /\ pc = "error" => EdfBlank
    /\ gen_pc = "error" <=> (gen_pc \notin {"call", "off"} /\ gen_horizon < 0)
    /\ gen_pc = "error" => gen_jobs = <<>>
    /\ (pc = "done" /\ horizon = 0) =>
           result = [timeline |-> <<>>, missed_deadlines |-> <<>>,
                     unfinished_jobs |-> <<>>, simulation_end |-> 0]

\* simulate_edf returned for horizon = 0 on two tasks whose first jobs are
\* released at 0.
C18_Witness ==
    /\ pc = "done"
    /\ horizon = 0
    /\ Len(tasks) = 2
    /\ Len(jobs) >= 2
    /\ \A k \in JobIds : jobs[k].release_time = 0

(***************************************************************************)
(* Scenarios.                                                              *)
(***************************************************************************)
\* C20: on the overloaded pair A(C=3, T=4, D=4), B(C=3, T=5, D=5) with zero
\* offsets, simulate_edf over a horizon of one hyperperiod (20) or more returns
\* at least one missed deadline.
C20_OverloadMissesDeadline ==
    (pc = "done" /\ tasks = OverloadTasks /\ horizon >= U(OverloadHyperperiod))
        => result.missed_deadlines # <<>>

\* The run over exactly one hyperperiod returned, its first missed deadline
\* being that of the first job of B, completed at 6 for a deadline of 5.
C20_Witness ==
    /\ pc = "done"
    /\ tasks = OverloadTasks
    /\ horizon = U(OverloadHyperperiod)
    /\ result.missed_deadlines # <<>>
    /\ LET j == jobs[result.missed_deadlines[1]] IN
       /\ j.task.name = "B"
       /\ j.instance = 1
       /\ j.completed_at = U(6)
       /\ j.absolute_deadline = U(5)

\* The jobs of task `name` with instance in 1..n.
InstancesOf(name, n) ==
    {k \in JobIds : jobs[k].task.name = name /\ jobs[k].instance \in 1..n}

CompletedInTime(k) ==
    /\ jobs[k].completed_at # None
    /\ jobs[k].completed_at <= jobs[k].absolute_deadline

\* The call of scenario 2 returned.
FeasibleDone ==
    pc = "done" /\ tasks = FeasibleTasks /\ horizon = U(FeasibleHyperperiod)

\* C21: on A(C=1, T=3, D=3), B(C=1, T=5, D=5) with zero offsets and horizon 15,
\* simulate_edf completes instances 1..5 of A and 1..3 of B, each no later than
\* its absolute deadline, and returns no missed deadline and no unfinished job.
C21_FeasiblePairMeetsDeadlines ==
    FeasibleDone =>
        /\ \A i \in 1..5 : \E k \in InstancesOf("A", 5) : jobs[k].instance = i
        /\ \A i \in 1..3 : \E k \in InstancesOf("B", 3) : jobs[k].instance = i
        /\ \A k \in InstancesOf("A", 5) \cup InstancesOf("B", 3) : CompletedInTime(k)
        /\ result.missed_deadlines = <<>>
        /\ result.unfinished_jobs = <<>>

\* The run of scenario 2 returned with eight jobs completed, B#3 at 11 after
\* A#4, and the simulation ended at 15.
C21_Witness ==
    /\ FeasibleDone
    /\ Cardinality(InstancesOf("A", 5)) = 5
    /\ Cardinality(InstancesOf("B", 3)) = 3
    /\ \E k \in InstancesOf("B", 3) :
           jobs[k].instance = 3 /\ jobs[k].completed_at = U(11)
    /\ result.simulation_end = U(15)

\* The call of scenario 1 returned.
SingleDone ==
    pc = "done" /\ tasks = SingleTask /\ horizon = U(7)

\* C22: on the single task C=2, T=7, D=7 with offset 0 and horizon 7,
\* simulate_edf returns exactly two timeline entries, instance 1 of the task on
\* [0, 2] flagged completed and then IDLE on [2, 7], with no missed deadline and
\* simulation_end = 7.
C22_SingleTaskTimeline ==
    SingleDone =>
        /\ result.timeline =
               <<[task |-> "T", job |-> 1, start |-> 0, end |-> U(2),
                  deadline |-> U(7), completed |-> TRUE],
                 [task |-> "IDLE", job |-> None, start |-> U(2), end |-> U(7),
                  deadline |-> None, completed |-> TRUE]>>
        /\ result.missed_deadlines = <<>>
        /\ result.simulation_end = U(7)

\* The run of scenario 1 returned with its job completed at 2 and an idle end.
C22_Witness ==
    /\ SingleDone
    /\ Len(result.timeline) = 2
    /\ result.timeline[2].task = "IDLE"
    /\ \E k \in JobIds : jobs[k].instance = 1 /\ jobs[k].completed_at = U(2)

(***************************************************************************)
(* Properties of two calls of check_feasibility on the same tasks.         *)
(***************************************************************************)
\* Both calls returned a report, the first under RM and the second under DM,
\* with the same preemptive flag.
RmThenDm ==
    /\ first.rpc = "done"
    /\ rpc = "done"
    /\ first.policy = "RM"
    /\ policy = "DM"
    /\ first.preemptive = preemptive

ImplicitDeadlines == \A i \in 1..Len(stasks) : stasks[i].deadline = stasks[i].period

DistinctPeriods ==
    \A i, j \in 1..Len(stasks) : i # j => stasks[i].period # stasks[j].period

\* C23: when every task has deadline = period and the periods are pairwise
\* distinct, check_feasibility under RM and under DM (same preemptive flag)
\* orders the tasks the same way and returns the same results.  (That some set
\* with deadlines different from periods is feasible under one policy only is
\* the state C23_Witness describes.)
C23_RmAndDm ==
    (RmThenDm /\ ImplicitDeadlines /\ DistinctPeriods) =>
        /\ ordered = first.ordered
        /\ report.results = first.report.results
        /\ report.feasible = first.report.feasible

\* A task set with a deadline shorter than its period that RM rejects and DM
\* accepts.
C23_Witness ==
    /\ RmThenDm
    /\ ~ImplicitDeadlines
    /\ ~first.report.feasible
    /\ report.feasible

\* Both calls returned a report under the same policy, the first with
\* preemption and the second without.
PreemptiveThenNot ==
    /\ first.rpc = "done"
    /\ rpc = "done"
    /\ first.policy = policy
    /\ first.preemptive
    /\ ~preemptive

\* The result of the report for the task of that name.
ResultFor(rep, name) ==
    rep.results[CHOOSE i \in 1..Len(rep.results) : rep.results[i].task.name = name]

TaskNamesOf(rep) == {rep.results[i].task.name : i \in 1..Len(rep.results)}

\* C24 as stated: switching from preemptive to non-preemptive never decreases
\* a task's blocking_time or response_time and never turns its deadline_met
\* from false to true.
C24_NonPreemptiveNeverBetter ==
    PreemptiveThenNot =>
        /\ TaskNamesOf(report) = TaskNamesOf(first.report)
        /\ \A name \in TaskNamesOf(report) :
               LET with == ResultFor(first.report, name)
                   without == ResultFor(report, name)
               IN /\ without.blocking_time >= with.blocking_time
                  /\ without.response_time >= with.response_time
                  /\ without.deadline_met => with.deadline_met

\* C24, amended: switching from preemptive to non-preemptive never decreases a
\* task's blocking_time, never decreases the response_time of a task whose
\* deadline is met in the preemptive report, and never turns a task's
\* deadline_met from false to true.
C24_NonPreemptiveNeverBetterWhenMet ==
    PreemptiveThenNot =>
        /\ TaskNamesOf(report) = TaskNamesOf(first.report)
        /\ \A name \in TaskNamesOf(report) :
               LET with == ResultFor(first.report, name)
                   without == ResultFor(report, name)
               IN /\ without.blocking_time >= with.blocking_time
                  /\ with.deadline_met => without.response_time >= with.response_time
                  /\ without.deadline_met => with.deadline_met

\* A task set whose lowest-priority task has the largest computation time, and
\* a task above it that meets its deadline with preemption and misses it
\* without, its blocking time being that computation time.
C24_Witness ==
    /\ PreemptiveThenNot
    /\ Len(ordered) >= 2
    /\ \A i \in 1..(Len(ordered) - 1) :
           ordered[i].computation_time < ordered[Len(ordered)].computation_time
    /\ \E i \in 1..(Len(ordered) - 1) :
           /\ first.report.results[i].deadline_met
           /\ ~report.results[i].deadline_met
           /\ report.results[i].blocking_time = ordered[Len(ordered)].computation_time
           /\ first.report.results[i].blocking_time = 0

(***************************************************************************)
(* Properties of merge_timeline.                                           *)
(***************************************************************************)
RECURSIVE TotalDuration(_)
TotalDuration(tl) ==
    IF tl = <<>> THEN 0 ELSE Head(tl).end - Head(tl).start + TotalDuration(Tail(tl))

\* No entry of zero length (none within EPSILON of it), and no two consecutive
\* entries of the same task, job and deadline that touch within EPSILON.
Merged(tl) ==
    /\ \A i \in 1..Len(tl) : tl[i].end - tl[i].start > EPSILON
    /\ \A i \in 2..Len(tl) :
           ~(/\ tl[i].task = tl[i - 1].task
             /\ tl[i].job = tl[i - 1].job
             /\ tl[i].deadline = tl[i - 1].deadline
             /\ Abs(tl[i].start - tl[i - 1].end) <= EPSILON)

OwnersOf(tl) == {<<tl[i].task, tl[i].job>> : i \in 1..Len(tl)}

\* The total duration and the duration of each job differ between the two
\* lists by `slack` at most.
SameDurations(before, after, slack) ==
    /\ Abs(TotalDuration(after) - TotalDuration(before)) <= slack
    /\ \A o \in OwnersOf(before) \cup OwnersOf(after) :
           Abs(JobDuration(after, o[1], o[2]) - JobDuration(before, o[1], o[2]))
               <= slack

\* No entry has a length in (0, EPSILON] and none starts within EPSILON after
\* the end of the entry before it without starting exactly there.
Exact(tl) ==
    /\ \A i \in 1..Len(tl) :
           tl[i].end = tl[i].start \/ tl[i].end - tl[i].start > EPSILON
    /\ \A i \in 2..Len(tl) :
           tl[i].start = tl[i - 1].end \/ tl[i].start - tl[i - 1].end > EPSILON

\* What simulate_edf returns and what merge_timeline returns are merged, and
\* merge_timeline is idempotent.
MergedAndIdempotent ==
    /\ pc = "done" => Merged(result.timeline)
    /\ mt_pc \in {"merged", "again"} => Merged(mt_merged)
    /\ mt_pc = "again" => mt_again = mt_merged

\* C25 as stated: the timeline simulate_edf returns has no entry of zero length
\* and no two consecutive entries of the same task, job and deadline that are
\* contiguous; merge_timeline is idempotent and preserves the total duration
\* and the summed duration of each job.
C25_MergePreservesDurations ==
    /\ MergedAndIdempotent
    /\ mt_pc \in {"merged", "again"} => SameDurations(mt_entries, mt_merged, 0)

\* C25, amended: as stated, but merge_timeline preserves the total duration
\* and the summed duration of each job up to EPSILON for each entry of its
\* input, and exactly when no entry has a length in (0, EPSILON] and none
\* starts within EPSILON after the end of the entry before it without starting
\* exactly there.
C25_MergePreservesDurationsWithinEpsilon ==
    /\ MergedAndIdempotent
    /\ mt_pc \in {"merged", "again"} =>
           /\ SameDurations(mt_entries, mt_merged, EPSILON * Len(mt_entries))
           /\ Exact(mt_entries) => SameDurations(mt_entries, mt_merged, 0)

\* merge_timeline dropped an entry of zero length and merged the two entries of
\* one job around it, and the second call returned.
C25_Witness ==
    /\ mt_pc = "again"
    /\ Exact(mt_entries)
    /\ Len(mt_entries) = 3
    /\ mt_entries[2].end = mt_entries[2].start
    /\ Len(mt_merged) = 1
    /\ mt_merged[1].start = mt_entries[1].start
    /\ mt_merged[1].end = mt_entries[3].end
    /\ mt_merged[1].completed

(***************************************************************************)
(* Termination of simulate_edf.                                            *)
(***************************************************************************)
\* The jobs waiting in the two queues.
Queued == Len(future_jobs) + Len(ready_jobs)

\* A natural number that bounds the steps the call has left: the time to the
\* horizon counts most, then the jobs still to take out of the queues (before
\* the queues are filled, those to generate), then the position.
Variant ==
    4 * Max2(0, horizon - now)
    + 2 * (IF pc = "start" THEN Len(AllJobs(tasks, horizon)) ELSE Queued)
    + (CASE pc = "start" -> 4 [] pc = "loop" -> 3 [] pc = "run" -> 2
         [] pc = "after" -> 1 [] OTHER -> 0)

\* At the head of an iteration, when the loop test holds: a job is ready and
\* will be popped, or no job is left and the loop is left, or the next release
\* (clamped to the horizon) is strictly after now.
IterationProgresses ==
    (pc = "loop" /\ LoopTest) =>
        \/ Drained.ready # <<>>
        \/ Drained.future = <<>>
        \/ Min2(HeapTop(Drained.future)[1], horizon) > now

\* C26: for every task set and horizon >= 0 the loop of simulate_edf ends: now
\* never decreases and never exceeds the horizon, every loop iteration either
\* strictly advances now or takes a job out of the queues for good (or leaves
\* the loop), so that a natural number decreases at every step of the call,
\* and on return simulation_end = min(now, horizon).
C26_LoopTerminates ==
    /\ [](horizon >= 0 => (now >= 0 /\ now <= horizon))
    /\ [](Variant >= 0)
    /\ []IterationProgresses
    /\ [][now' >= now]_vars
    /\ [][Variant' < Variant]_vars
    /\ [][(pc = "loop" /\ pc' = "loop") => (now' > now \/ Queued' < Queued)]_vars
    /\ [][(pc = "loop" /\ pc' = "run") => Queued' < Queued]_vars
    /\ [][(pc = "run" /\ pc' = "loop") => now' > now]_vars
    /\ [](pc = "done" => result.simulation_end = Min2(now, horizon))

\* A run that returned at the horizon after at least three executions and an
\* idle gap, with jobs still in the queues.
C26_Witness ==
    /\ pc = "done"
    /\ Len(result.timeline) >= 4
    /\ \E i \in 1..Len(result.timeline) : result.timeline[i].task = "IDLE"
    /\ Queued > 0
    /\ now = horizon

(***************************************************************************)
(* Work conservation.                                                      *)
(***************************************************************************)
\* Job j has no more than `tolerance` left to run from t on: it never had
\* more, or it completed by t and what was left of it is no more.
SettledBy(j, t, tolerance) ==
    \/ jobs[j].task.computation_time <= tolerance
    \/ /\ jobs[j].completed_at # None
       /\ jobs[j].completed_at <= t
       /\ jobs[j].remaining_time <= tolerance

\* Job j is released and has more than `tolerance` left to run during the
\* whole of the tick [t, t + 1).
PendingDuring(j, t, tolerance) ==
    /\ jobs[j].task.computation_time > tolerance
    /\ jobs[j].release_time <= t
    /\ jobs[j].completed_at = None \/ jobs[j].completed_at >= t + 1

\* Entry e ends at a release or at the horizon, and no job with more than
\* `tolerance` to run is released inside it: with tolerance 0, e ends at the
\* first release after its start, or at the horizon when there is none.
EndsAtNextRelease(e, tolerance) ==
    /\ e.end = horizon \/ \E j \in JobIds : jobs[j].release_time = e.end
    /\ \A j \in JobIds :
           jobs[j].task.computation_time > tolerance =>
               ~(e.start < jobs[j].release_time /\ jobs[j].release_time < e.end)

\* A timeline entry of a job covers the tick [t, t + 1).
Executing(t) ==
    \E i \in 1..Len(result.timeline) :
        /\ result.timeline[i].task # "IDLE"
        /\ result.timeline[i].start <= t
        /\ result.timeline[i].end >= t + 1

\* Work conservation of the returned timeline, a job counting as incomplete
\* while it has more than `tolerance` left, on the ticks that end `margin`
\* or more before the horizon.
WorkConserving(tolerance, margin) ==
    /\ \A i \in 1..Len(result.timeline) :
           LET e == result.timeline[i] IN
           e.task = "IDLE" =>
               /\ \A j \in JobIds :
                      jobs[j].release_time < e.end => SettledBy(j, e.start, tolerance)
               /\ EndsAtNextRelease(e, tolerance)
    /\ \A t \in 0..(horizon - 1 - margin) :
           (\E j \in JobIds : PendingDuring(j, t, tolerance)) => Executing(t)

\* C27 as stated: simulate_edf is work-conserving.  In the result, every job
\* released before the end of an IDLE entry had remaining_time 0 when the entry
\* started; in every tick before the horizon in which a released job has
\* remaining_time > 0, an entry of a job covers the tick; an IDLE entry ends
\* at the first release after its start, or at the horizon.
C27_WorkConserving == pc = "done" => WorkConserving(0, 0)

\* C27, amended: the same with a job counting as complete once its
\* remaining_time is EPSILON or less, on the ticks that end more than EPSILON
\* before the horizon; an IDLE entry ends at a release or at the horizon, and
\* the releases inside it are of jobs with EPSILON or less to run.
C27_WorkConservingUpToEpsilon == pc = "done" => WorkConserving(EPSILON, EPSILON)

\* A result with an idle gap between two releases, during which a job with
\* EPSILON to run stays unrun, after a job that completed with EPSILON left.
C27_Witness ==
    /\ pc = "done"
    /\ \E i \in 1..Len(result.timeline) : \E j1, j2 \in JobIds :
           LET e == result.timeline[i] IN
           /\ e.task = "IDLE"
           /\ e.start > 0
           /\ e.end < horizon
           /\ jobs[j1].release_time <= e.start
           /\ jobs[j1].remaining_time = EPSILON
           /\ jobs[j1].completed_at = None
           /\ jobs[j2].completed_at = e.start
           /\ jobs[j2].remaining_time = EPSILON

(***************************************************************************)
(* Preemption.                                                             *)
(***************************************************************************)
\* At the loop head, the job that ran the last segment was put back on
\* ready_jobs with time left to run (main.py:163-172).
Preempted ==
    /\ pc = "loop"
    /\ job \in JobIds
    /\ jobs[job].remaining_time > EPSILON
    /\ \E i \in 1..Len(ready_jobs) : ready_jobs[i][4] = job

\* The sequence number of the entry of job j in ready_jobs.
ReadySeq(j) ==
    LET i == CHOOSE i \in 1..Len(ready_jobs) : ready_jobs[i][4] = j
    IN ready_jobs[i][3]

\* The job a timeline entry belongs to.
JobOfEntry(e) ==
    CHOOSE j \in JobIds : jobs[j].task.name = e.task /\ jobs[j].instance = e.job

\* Entry m of the returned timeline lies between two entries of another job.
SplitAround(i, m, k) ==
    /\ i < m /\ m < k
    /\ result.timeline[i].task # "IDLE"
    /\ result.timeline[i].task = result.timeline[k].task
    /\ result.timeline[i].job = result.timeline[k].job
    /\ \/ result.timeline[m].task # result.timeline[i].task
       \/ result.timeline[m].job # result.timeline[i].job

Entries == 1..Len(result.timeline)

EarlierDeadline(j1, j2) == jobs[j1].absolute_deadline < jobs[j2].absolute_deadline

SameDeadlineAndRelease(j1, j2) ==
    /\ jobs[j1].absolute_deadline = jobs[j2].absolute_deadline
    /\ jobs[j1].release_time = jobs[j2].release_time

\* C28 as stated: a job put back on ready_jobs at a release instant is the next
\* to run unless the job dispatched has a strictly earlier absolute deadline,
\* and in the result the entries between two entries of one job belong to
\* jobs of strictly earlier deadline.
C28_OnlyEarlierDeadlineDisplaces ==
    /\ [][(Preempted /\ pc' = "run") =>
              (job' = job \/ EarlierDeadline(job', job))]_vars
    /\ [](pc = "done" =>
            \A i, m, k \in Entries :
                SplitAround(i, m, k) =>
                    result.timeline[m].task # "IDLE"
                    /\ result.timeline[m].deadline < result.timeline[i].deadline)

\* C28, amended: the job dispatched in its place has a strictly earlier
\* absolute deadline, or the same absolute deadline and release time and an
\* earlier sequence number in ready_jobs; in the result the entries between
\* two entries of one job belong to jobs of strictly earlier deadline or of
\* equal deadline and release time.
C28_EarlierKeyDisplaces ==
    /\ [][(Preempted /\ pc' = "run") =>
              \/ job' = job
              \/ EarlierDeadline(job', job)
              \/ /\ SameDeadlineAndRelease(job', job)
                 /\ popped'[3] < ReadySeq(job)]_vars
    /\ [](pc = "done" =>
            \A i, m, k \in Entries :
                SplitAround(i, m, k) =>
                    /\ result.timeline[m].task # "IDLE"
                    /\ \/ result.timeline[m].deadline < result.timeline[i].deadline
                       \/ SameDeadlineAndRelease(JobOfEntry(result.timeline[m]),
                                                 JobOfEntry(result.timeline[i])))

\* A result in which one job is split around a job of the same deadline and
\* release time, the release of a third job having put it back on ready_jobs.
C28_Witness ==
    /\ pc = "done"
    /\ \E i, m, k \in Entries :
           /\ SplitAround(i, m, k)
           /\ SameDeadlineAndRelease(JobOfEntry(result.timeline[m]),
                                     JobOfEntry(result.timeline[i]))
           /\ \E j \in JobIds : jobs[j].release_time = result.timeline[i].end

(***************************************************************************)
(* The lifecycle of a job.                                                 *)
(***************************************************************************)
\* Job j is in one of the two queues.
Enqueued(j) ==
    \/ \E i \in 1..Len(future_jobs) : future_jobs[i][3] = j
    \/ \E i \in 1..Len(ready_jobs) : ready_jobs[i][4] = j

\* What holds of every job at every moment, a completed job having run for
\* its computation time less `tolerance` at least.
LifecycleState(tolerance) ==
    /\ \A i \in 1..Len(timeline) :
           timeline[i].task # "IDLE" =>
               timeline[i].start >= jobs[JobOfEntry(timeline[i])].release_time
    /\ pc = "run" => jobs[job].started_at # None
    /\ \A j \in JobIds :
           /\ jobs[j].remaining_time >= 0
           /\ jobs[j].remaining_time <= jobs[j].task.computation_time
           /\ jobs[j].completed_at # None =>
                  /\ jobs[j].started_at # None
                  /\ jobs[j].completed_at >=
                         jobs[j].started_at + jobs[j].task.computation_time - tolerance
                  /\ ~Enqueued(j)
                  /\ ~(pc = "run" /\ job = j)

\* What holds of every job at every step.
LifecycleStep ==
    \A j \in JobIds :
        /\ jobs[j].started_at # None => jobs'[j].started_at = jobs[j].started_at
        /\ jobs'[j].started_at # jobs[j].started_at =>
               /\ pc = "loop" /\ pc' = "run" /\ job' = j
               /\ jobs'[j].started_at = now
        /\ jobs'[j].remaining_time <= jobs[j].remaining_time
        /\ jobs[j].completed_at # None =>
               jobs'[j].completed_at = jobs[j].completed_at

\* C29 as stated: no timeline entry of a job starts before its release;
\* started_at is set at the first dispatch, to now, and never changed;
\* remaining_time only decreases and stays within [0, computation_time];
\* completed_at is set at most once, with completed_at >= started_at +
\* computation_time; a completed job is in no queue and is not dispatched.
C29_JobLifecycle == []LifecycleState(0) /\ [][LifecycleStep]_vars

\* C29, amended: the same with completed_at >= started_at + computation_time
\* - EPSILON.
C29_JobLifecycleUpToEpsilon == []LifecycleState(EPSILON) /\ [][LifecycleStep]_vars

\* A job that ran its last segment up to a release EPSILON before its planned
\* finish and completed there, beside a job that started after its release.
C29_Witness ==
    /\ pc = "done"
    /\ \E j1, j2 \in JobIds :
           /\ jobs[j1].completed_at =
                  jobs[j1].started_at + jobs[j1].task.computation_time - EPSILON
           /\ jobs[j1].remaining_time = EPSILON
           /\ jobs[j2].started_at # None
           /\ jobs[j2].started_at > jobs[j2].release_time

(***************************************************************************)
(* hpf.check_feasibility and analysis.check_feasibility.                   *)
(***************************************************************************)
\* Both calls are over.
BothOver == hpf_pc \in {"done", "error"} /\ rpc \in {"done", "error"}

\* C30: for tasks with zero offsets, under RM and DM, with and without
\* preemption, hpf.check_feasibility returns a boolean exactly when
\* analysis.check_feasibility returns a report, and the boolean is the
\* feasible field of the report.
C30_HpfAgreesWithAnalysis ==
    BothOver =>
        /\ hpf_pc = "done" <=> rpc = "done"
        /\ (hpf_pc = "done" /\ rpc = "done") => hpf_result = report.feasible

=============================================================================
